---- MODULE Spec2Model ----
(***************************************************************************)
(* pickit: the in-memory directory tree of the sparse-checkout TUI          *)
(* (src/src/app.rs), its main loop (src/src/main.rs) and the background     *)
(* threads that talk to git (src/src/git.rs).                               *)
(*                                                                          *)
(* Node indices and the cursor are 0-based as in the source: items is a     *)
(* function on 0..n-1.  Child lists and the visible list are sequences of   *)
(* node indices.  A path is the sequence of its components (what            *)
(* PathBuf::components yields); a component is the sequence of its bytes.   *)
(* Every name of the modelled repository is plain ASCII without spaces, so  *)
(* git prints it unquoted and String <-> PathBuf conversions keep it.       *)
(***************************************************************************)
EXTENDS Integers, Sequences, FiniteSets, Bags, TLC

VARIABLES
    items,                            \* App.items
    path_to_index,                    \* App.path_to_index
    filtered_item_indices,            \* App.filtered_item_indices
    selected_item_index,              \* App.selected_item_index
    last_git_error,                   \* App.last_git_error
    is_applying_changes,              \* App.is_applying_changes
    is_sparse_checkout_list_loading,  \* App.is_sparse_checkout_list_loading
    sparse_checkout_dirs,             \* App.sparse_checkout_dirs
    uncommitted_paths,                \* App.uncommitted_paths
    rx,                               \* the mpsc channel App.tx -> App.rx
    threads,                          \* the spawned threads that have not sent yet
    git_sparse,                       \* the repository's sparse-checkout set
    merge_log,                        \* history: the listings merged into each node
    cleared,                          \* history: the marker an apply completion took off each node
    submitted,                        \* history: the marker each node had when 'a' was last pressed
    ops,                              \* history: how much of the run's budget is used
    budget,                           \* the run's budget, fixed at the start
    latest_refresh,                   \* history: the refresh dispatched last and what its thread read
    codec                             \* a call of the path codec: its input, the step, its result

vars == <<items, path_to_index, filtered_item_indices, selected_item_index,
          last_git_error, is_applying_changes, is_sparse_checkout_list_loading,
          sparse_checkout_dirs, uncommitted_paths, rx, threads, git_sparse,
          merge_log, cleared, submitted, ops, budget, latest_refresh, codec>>

\* ------------------------------------------------------------------ bounds

\* Threads spawned and results not yet consumed, together.
MaxInFlight == 2

\* Fetch threads spawned in one run.
MaxFetch == 4

\* Presses of 'a' in one run.
MaxApply == 2

\* Presses of 'r' in one run (the refresh after an apply is not counted).
MaxRefresh == 2

\* git commands that fail in one run.
MaxFail == 1

\* Writes of the sparse-checkout set by other processes in one run.
MaxExternal == 1

\* Presses of the space bar on an unlocked item in one run.
MaxToggle == 2

\* Rows of the tree view (the terminal's height less the frame), from 0.
MaxPage == 2

\* A run is one of five kinds, which bounds what is explored: a run of fetches
\* while HEAD moves (expands with results and failures in any order, each listing
\* showing any part of the directories), a run of fetches and toggles, a run with
\* one apply, failures and outside writes, a run with overlapping applies, and a
\* run with refreshes.
Budgets ==
    { [inflight |-> MaxInFlight, fetch |-> MaxFetch, apply |-> 0, refresh |-> 0, fail |-> MaxFail, toggle |-> 0, external |-> 0, head_moves |-> TRUE],
      [inflight |-> MaxInFlight, fetch |-> MaxFetch, apply |-> 0, refresh |-> 0, fail |-> MaxFail - 1, toggle |-> MaxToggle, external |-> 0, head_moves |-> FALSE],
      [inflight |-> MaxInFlight - 1, fetch |-> MaxFetch - 3, apply |-> MaxApply - 1, refresh |-> 0, fail |-> MaxFail, toggle |-> MaxToggle - 1, external |-> MaxExternal, head_moves |-> FALSE],
      [inflight |-> MaxInFlight, fetch |-> MaxFetch - 3, apply |-> MaxApply, refresh |-> 0, fail |-> MaxFail - 1, toggle |-> MaxToggle - 1, external |-> 0, head_moves |-> FALSE],
      [inflight |-> MaxInFlight, fetch |-> MaxFetch - 3, apply |-> 0, refresh |-> MaxRefresh, fail |-> MaxFail - 1, toggle |-> MaxToggle - 1, external |-> MaxExternal, head_moves |-> FALSE] }

\* ------------------------------------------------- the modelled repository

Dot == <<46>>
NameS == <<115>>
NameD1 == <<100, 49>>
NameD10 == <<100, 49, 48>>
NameP == <<112>>
NameQ == <<113>>
NameR == <<114>>
NameF == <<102>>

\* PathBuf::from(".")
RootPath == <<Dot>>

\* The directories HEAD can hold: s, s/d1, s/d1/p, s/d1/q, s/d10, s/d10/r.
PathS == <<NameS>>
PathD1 == <<NameS, NameD1>>
PathD10 == <<NameS, NameD10>>
PathP == <<NameS, NameD1, NameP>>
PathQ == <<NameS, NameD1, NameQ>>
PathR == <<NameS, NameD10, NameR>>
RepoDirs == { PathS, PathD1, PathD10, PathP, PathQ, PathR }

\* The files that can be modified or untracked: s/d1/f.
RepoFiles == { <<NameS, NameD1, NameF>> }

\* What the repository can hold when the program starts: the sparse-checkout set
\* and the changed files.
InitRepo == { [sco |-> {PathS}, unc |-> {}],
             [sco |-> {PathD1}, unc |-> {<<NameS, NameD1, NameF>>}] }

\* The sets another process can write with `git sparse-checkout set` while the
\* program runs.
ExternalSets == { {PathD10}, {PathS, PathD10} }

\* ------------------------------------------------------------------- paths

\* Path::starts_with: component-wise prefix.
starts_with(p, base) ==
    /\ Len(base) <= Len(p)
    /\ SubSeq(p, 1, Len(base)) = base

\* Lexicographic order of two sequences of naturals (bytes of a component).
RECURSIVE NameLess(_, _)
NameLess(a, b) ==
    IF b = <<>> THEN FALSE
    ELSE IF a = <<>> THEN TRUE
    ELSE IF Head(a) # Head(b) THEN Head(a) < Head(b)
    ELSE NameLess(Tail(a), Tail(b))

\* Ord for PathBuf: lexicographic over the components.
RECURSIVE PathLess(_, _)
PathLess(p, q) ==
    IF q = <<>> THEN FALSE
    ELSE IF p = <<>> THEN TRUE
    ELSE IF Head(p) # Head(q) THEN NameLess(Head(p), Head(q))
    ELSE PathLess(Tail(p), Tail(q))

\* Itertools::sorted over a collection of distinct paths.
RECURSIVE sorted(_)
sorted(S) ==
    IF S = {} THEN <<>>
    ELSE LET m == CHOOSE x \in S : \A y \in S \ {x} : PathLess(x, y)
         IN <<m>> \o sorted(S \ {m})

\* What `git ls-tree -d HEAD:path` can list: the directories directly under path.
DirsUnder(path) ==
    IF path = RootPath THEN {d \in RepoDirs : Len(d) = 1}
    ELSE {d \in RepoDirs : Len(d) = Len(path) + 1 /\ starts_with(d, path)}

\* What one call of `git ls-tree -d HEAD:path` returns in this run: the directories
\* under path, or, while other processes commit, any part of them.
Listings(path, head_moves) ==
    IF head_moves THEN SUBSET DirsUnder(path) ELSE {DirsUnder(path)}

\* ------------------------------------------------------------------- items

NoParent == -1

NumItems(its) == Cardinality(DOMAIN its)

TreeItem_new(path, is_checked_out) ==
    [ path |-> path,
      children_indices |-> <<>>,
      parent_index |-> NoParent,
      is_expanded |-> FALSE,
      children_loaded |-> FALSE,
      is_checked_out |-> is_checked_out,
      pending_change |-> "None",
      is_locked |-> FALSE,
      contains_uncommitted_changes |-> FALSE,
      has_checked_out_descendant |-> FALSE,
      is_implicitly_checked_out |-> FALSE,
      is_loading |-> FALSE,
      indentation_level |-> 0,
      cached_pending_changes |-> 0 ]

\* Sum of the cached counts of the nodes a child list names.
RECURSIVE SumCached(_, _)
SumCached(its, ch) ==
    IF ch = <<>> THEN 0
    ELSE its[Head(ch)].cached_pending_changes + SumCached(its, Tail(ch))

\* An update that never leaves the node it was called on.
cache_propagate_nowhere(its, item_idx) == NoParent

\* The caller-side step of update_pending_changes_cache: where to go once a node's
\* count changed.
cache_propagate_to(its, item_idx) == its[item_idx].parent_index

RECURSIVE update_pending_changes_cache(_, _)
update_pending_changes_cache(its, item_idx) ==
    LET current_pending_changes ==
            (IF its[item_idx].pending_change # "None" THEN 1 ELSE 0)
            + SumCached(its, its[item_idx].children_indices)
    IN IF its[item_idx].cached_pending_changes # current_pending_changes
       THEN LET its2 == [its EXCEPT ![item_idx].cached_pending_changes = current_pending_changes]
                up == cache_propagate_to(its, item_idx)
            IN IF up # NoParent THEN update_pending_changes_cache(its2, up) ELSE its2
       ELSE its

\* for i in (0..items.len()).rev() { update_pending_changes_cache(i) }
RECURSIVE rebuild_cache_from(_, _)
rebuild_cache_from(its, i) ==
    IF i < 0 THEN its
    ELSE rebuild_cache_from(update_pending_changes_cache(its, i), i - 1)

rebuild_cache(its) == rebuild_cache_from(its, NumItems(its) - 1)

\* ------------------------------------------------- update_tree_item_states

\* A path as the string git prints: the components joined by '/'.
RECURSIVE PathString(_)
PathString(p) ==
    IF Len(p) = 0 THEN <<>>
    ELSE IF Len(p) = 1 THEN p[1]
    ELSE p[1] \o <<47>> \o PathString(Tail(p))

\* String prefix, byte by byte.
StringPrefix(a, b) == Len(a) <= Len(b) /\ SubSeq(b, 1, Len(a)) = a

\* Pass 1 with the paths compared as strings instead of component by component.
has_descendant_by_string(item_path, sco) ==
    \E sco_path \in sco :
        IF item_path = RootPath
        THEN sco_path # RootPath
        ELSE /\ StringPrefix(PathString(item_path), PathString(sco_path))
             /\ Len(PathString(sco_path)) > Len(PathString(item_path))

\* Pass 1, one item: some path of the checkout list lies strictly beneath it.
has_descendant_in_list(item_path, sco) ==
    \E sco_path \in sco :
        IF item_path = RootPath
        THEN sco_path # RootPath
        ELSE starts_with(sco_path, item_path) /\ Len(sco_path) > Len(item_path)

pass1(its, sco) ==
    [i \in DOMAIN its |->
        [its[i] EXCEPT !.has_checked_out_descendant = has_descendant_in_list(its[i].path, sco)]]

\* Pass 2, one item, with the items after it already aggregated.
pass2_value(its, i) ==
    LET item_has_explicit_checkout == its[i].is_checked_out
        children_have_checked_out_descendant ==
            \E k \in 1..Len(its[i].children_indices) :
                LET child == its[its[i].children_indices[k]]
                IN child.is_checked_out \/ child.has_checked_out_descendant
    IN its[i].has_checked_out_descendant
       \/ children_have_checked_out_descendant
       \/ item_has_explicit_checkout

RECURSIVE pass2(_, _)
pass2(its, i) ==
    IF i < 0 THEN its
    ELSE pass2([its EXCEPT ![i].has_checked_out_descendant = pass2_value(its, i)], i - 1)

\* Pass 3 without inheritance: only the parent's own explicit flag counts.
parent_is_checked_out_only(its, i) ==
    IF its[i].parent_index # NoParent
    THEN IF its[i].parent_index = 0
         THEN FALSE
         ELSE its[its[i].parent_index].is_checked_out
    ELSE FALSE

\* Pass 3, one item, with the items before it already set.
parent_is_effectively_checked_out(its, i) ==
    IF its[i].parent_index # NoParent
    THEN IF its[i].parent_index = 0
         THEN FALSE
         ELSE LET parent == its[its[i].parent_index]
              IN parent.is_checked_out \/ parent.is_implicitly_checked_out
    ELSE FALSE

RECURSIVE pass3(_, _)
pass3(its, i) ==
    IF i >= NumItems(its) THEN its
    ELSE pass3([its EXCEPT ![i].is_implicitly_checked_out = parent_is_effectively_checked_out(its, i)], i + 1)

update_tree_item_states(its, sco) ==
    pass3(pass2(pass1(its, sco), NumItems(its) - 1), 0)

\* ----------------------------------------------------- build_visible_items

\* A traversal that descends into every node, expanded or not.
RECURSIVE visit_all(_, _)
visit_all(its, ch) ==
    IF ch = <<>> THEN <<>>
    ELSE <<Head(ch)>> \o visit_all(its, its[Head(ch)].children_indices) \o visit_all(its, Tail(ch))

build_visible_items_all(its, item_idx) ==
    <<item_idx>> \o visit_all(its, its[item_idx].children_indices)

RECURSIVE build_visible_items_recursive(_, _)
RECURSIVE visit_children(_, _)
build_visible_items_recursive(its, item_idx) ==
    <<item_idx>> \o (IF its[item_idx].is_expanded
                     THEN visit_children(its, its[item_idx].children_indices)
                     ELSE <<>>)

visit_children(its, ch) ==
    IF ch = <<>> THEN <<>>
    ELSE build_visible_items_recursive(its, Head(ch)) \o visit_children(its, Tail(ch))

build_visible_items(its) ==
    IF NumItems(its) # 0 THEN build_visible_items_recursive(its, 0) ELSE <<>>

\* ------------------------------------------------------ creating the nodes

\* uncommitted_paths.iter().any(|p| p.starts_with(&dir_path))
contains_uncommitted(unc, dir_path) == \E p \in unc : starts_with(p, dir_path)

\* A merge with no duplicate test.
already_present_never(p2i, dir_path) == FALSE

\* The duplicate test of a merge: the path already has a node.
already_present(p2i, dir_path) == dir_path \in DOMAIN p2i

\* A push that records the child's own index as its parent.
push_child_own_index(its, parent_idx, dir_path, sco, unc) ==
    LET new_idx == NumItems(its)
        item == [TreeItem_new(dir_path, dir_path \in sco) EXCEPT
                    !.contains_uncommitted_changes = contains_uncommitted(unc, dir_path),
                    !.is_locked = contains_uncommitted(unc, dir_path),
                    !.parent_index = new_idx,
                    !.indentation_level = its[parent_idx].indentation_level + 1,
                    !.cached_pending_changes = 0]
    IN [its EXCEPT ![parent_idx].children_indices = Append(@, new_idx)] @@ (new_idx :> item)

\* One new child of parent_idx, appended to the arena.
push_child(its, parent_idx, dir_path, sco, unc) ==
    LET new_idx == NumItems(its)
        item == [TreeItem_new(dir_path, dir_path \in sco) EXCEPT
                    !.contains_uncommitted_changes = contains_uncommitted(unc, dir_path),
                    !.is_locked = contains_uncommitted(unc, dir_path),
                    !.parent_index = parent_idx,
                    !.indentation_level = its[parent_idx].indentation_level + 1,
                    !.cached_pending_changes = 0]
    IN [its EXCEPT ![parent_idx].children_indices = Append(@, new_idx)] @@ (new_idx :> item)

\* The loop over the sorted listing; the result is <<items, path_to_index>>.
RECURSIVE merge_children(_, _, _, _, _, _)
merge_children(its, p2i, parent_idx, dirs, sco, unc) ==
    IF dirs = <<>> THEN <<its, p2i>>
    ELSE IF already_present(p2i, Head(dirs))
         THEN merge_children(its, p2i, parent_idx, Tail(dirs), sco, unc)
         ELSE merge_children(push_child(its, parent_idx, Head(dirs), sco, unc),
                             p2i @@ (Head(dirs) :> NumItems(its)),
                             parent_idx, Tail(dirs), sco, unc)

\* The root item of load_initial_tree.
root_item ==
    [TreeItem_new(RootPath, TRUE) EXCEPT
        !.is_locked = TRUE, !.is_expanded = TRUE, !.children_loaded = TRUE,
        !.indentation_level = 0, !.cached_pending_changes = 0]

\* A first tree built before the checkout list is known (the list still loading).
load_initial_tree_unlisted(sco, unc, top_level_dirs) ==
    LET m == merge_children((0 :> root_item), (RootPath :> 0), 0, sorted(top_level_dirs), {}, unc)
    IN <<rebuild_cache(update_tree_item_states(m[1], {})), m[2]>>

\* load_initial_tree: <<items, path_to_index>> for a checkout list, an uncommitted
\* set and the listing of the top level.
load_initial_tree(sco, unc, top_level_dirs) ==
    LET m == merge_children((0 :> root_item), (RootPath :> 0), 0, sorted(top_level_dirs), sco, unc)
    IN <<rebuild_cache(update_tree_item_states(m[1], sco)), m[2]>>

\* A refresh that also resets what the user did to the item.
refresh_item_resetting(item, sco, unc) ==
    IF item.path = RootPath
    THEN [item EXCEPT !.is_checked_out = TRUE, !.is_locked = TRUE]
    ELSE [item EXCEPT !.is_checked_out = item.path \in sco,
                      !.contains_uncommitted_changes = contains_uncommitted(unc, item.path),
                      !.is_locked = contains_uncommitted(unc, item.path),
                      !.is_expanded = FALSE,
                      !.pending_change = "None"]

\* A refresh that recomputes the uncommitted flag but leaves the lock as it was.
refresh_item_keeping_lock(item, sco, unc) ==
    IF item.path = RootPath
    THEN [item EXCEPT !.is_checked_out = TRUE, !.is_locked = TRUE]
    ELSE [item EXCEPT !.is_checked_out = item.path \in sco,
                      !.contains_uncommitted_changes = contains_uncommitted(unc, item.path)]

\* The in-place update of refresh, after both reads.
refresh_item(item, sco, unc) ==
    IF item.path = RootPath
    THEN [item EXCEPT !.is_checked_out = TRUE, !.is_locked = TRUE]
    ELSE [item EXCEPT !.is_checked_out = item.path \in sco,
                      !.contains_uncommitted_changes = contains_uncommitted(unc, item.path),
                      !.is_locked = contains_uncommitted(unc, item.path)]

refresh_items(its, sco, unc) ==
    rebuild_cache(update_tree_item_states([i \in DOMAIN its |-> refresh_item(its[i], sco, unc)], sco))

\* ------------------------------------------------- threads and the channel

\* A spawned thread: it makes its one git call ("call"), then sends ("send").
\* idx/path: the node a fetch is for (idx of a refresh: its number in dispatch
\* order); dirs: the set an apply writes;
\* ok/val: the result of the call.
Thread(kind, idx, path, dirs) ==
    [kind |-> kind, idx |-> idx, path |-> path, dirs |-> dirs,
     pc |-> "call", ok |-> FALSE, val |-> {}]

\* An AppMessage.  parent_idx and val are the payload of an Ok; `from` is not part
\* of the message: it records the node whose thread sent a ChildrenLoaded.
Message(kind, ok, parent_idx, val, from) ==
    [kind |-> kind, ok |-> ok, parent_idx |-> parent_idx, val |-> val, from |-> from]

InFlight == BagCardinality(threads) + Len(rx)

\* Room for one more of `what` in this run.
CanStart == InFlight < budget.inflight
CanFail == ops.fail < budget.fail

spawn(t) == threads' = threads (+) SetToBag({t})

\* A failure that leaves no message.
NoError == "None"

\* The outcomes of git::get_uncommitted_paths: an error, or the set of changed files.
GitError == "GitCommand"
UncommittedReads ==
    {[ok |-> FALSE, val |-> {}]} \cup {[ok |-> TRUE, val |-> S] : S \in SUBSET RepoFiles}

\* The item under the cursor: filtered_item_indices.get(selected_item_index).
HasSelected == selected_item_index < Len(filtered_item_indices)
SelectedIdx == filtered_item_indices[selected_item_index + 1]

\* --------------------------------------------------------------------- Init

\* No refresh was dispatched yet.  seq numbers the refreshes in dispatch order;
\* done, ok and val are the read of the list by the thread of refresh number seq.
NoRefresh == [seq |-> 0, done |-> FALSE, ok |-> FALSE, val |-> {}]

AppNew(repo, b) ==
    LET sco == repo.sco
        unc == repo.unc
        t == load_initial_tree(sco, unc, DirsUnder(RootPath))
    IN /\ items = t[1]
       /\ path_to_index = t[2]
       /\ filtered_item_indices = build_visible_items(t[1])
       /\ selected_item_index = 0
       /\ last_git_error = "None"
       /\ is_applying_changes = FALSE
       /\ is_sparse_checkout_list_loading = FALSE
       /\ sparse_checkout_dirs = sco
       /\ uncommitted_paths = unc
       /\ rx = <<>>
       /\ threads = EmptyBag
       /\ git_sparse = sco
       /\ merge_log = (0 :> <<DirsUnder(RootPath)>>) @@ [i \in DOMAIN t[1] |-> <<>>]
       /\ cleared = [i \in DOMAIN t[1] |-> "None"]
       /\ submitted = [i \in DOMAIN t[1] |-> "None"]
       /\ ops = [fetch |-> 0, apply |-> 0, refresh |-> 0, fail |-> 0, toggle |-> 0, external |-> 0]
       /\ budget = b
       /\ latest_refresh = NoRefresh

\* No call of the codec is under way.
CodecIdle == [units |-> <<>>, quoted |-> FALSE, op |-> "idle", out |-> <<>>]

Init ==
    /\ \E repo \in InitRepo, b \in Budgets : AppNew(repo, b)
    /\ codec = CodecIdle

\* ------------------------------------------------------------ key handlers

move_cursor_up ==
    /\ UNCHANGED <<budget, codec, latest_refresh>>
    /\ last_git_error' = "None"
    /\ IF filtered_item_indices # <<>>
       THEN selected_item_index' = (IF selected_item_index >= 1 THEN selected_item_index - 1 ELSE 0)
       ELSE UNCHANGED selected_item_index
    /\ UNCHANGED <<items, path_to_index, filtered_item_indices, is_applying_changes,
                   is_sparse_checkout_list_loading, sparse_checkout_dirs, uncommitted_paths,
                   rx, threads, git_sparse, merge_log, cleared, submitted, ops>>

move_cursor_down ==
    /\ UNCHANGED <<budget, codec, latest_refresh>>
    /\ last_git_error' = "None"
    /\ IF filtered_item_indices # <<>>
       THEN LET last == Len(filtered_item_indices) - 1
            IN selected_item_index' = (IF selected_item_index + 1 < last THEN selected_item_index + 1 ELSE last)
       ELSE UNCHANGED selected_item_index
    /\ UNCHANGED <<items, path_to_index, filtered_item_indices, is_applying_changes,
                   is_sparse_checkout_list_loading, sparse_checkout_dirs, uncommitted_paths,
                   rx, threads, git_sparse, merge_log, cleared, submitted, ops>>

\* selected_item_index.saturating_sub(page_size)
page_up_target(selected, page_size) ==
    IF selected >= page_size THEN selected - page_size ELSE 0

move_cursor_page_up ==
    /\ UNCHANGED <<budget, codec, latest_refresh>>
    /\ last_git_error' = "None"
    /\ \E tree_view_height \in 0..MaxPage :
          IF filtered_item_indices # <<>>
          THEN selected_item_index' = page_up_target(selected_item_index, tree_view_height)
          ELSE UNCHANGED selected_item_index
    /\ UNCHANGED <<items, path_to_index, filtered_item_indices, is_applying_changes,
                   is_sparse_checkout_list_loading, sparse_checkout_dirs, uncommitted_paths,
                   rx, threads, git_sparse, merge_log, cleared, submitted, ops>>

\* A page down that does not stop at the end of the list.
page_down_target_unclamped(selected, page_size, len) == selected + page_size

\* min(selected_item_index.saturating_add(page_size), len.saturating_sub(1))
page_down_target(selected, page_size, len) ==
    LET max_index == IF len >= 1 THEN len - 1 ELSE 0
    IN IF selected + page_size < max_index THEN selected + page_size ELSE max_index

move_cursor_page_down ==
    /\ UNCHANGED <<budget, codec, latest_refresh>>
    /\ last_git_error' = "None"
    /\ \E tree_view_height \in 0..MaxPage :
          IF filtered_item_indices # <<>>
          THEN selected_item_index' = page_down_target(selected_item_index, tree_view_height,
                                                       Len(filtered_item_indices))
          ELSE UNCHANGED selected_item_index
    /\ UNCHANGED <<items, path_to_index, filtered_item_indices, is_applying_changes,
                   is_sparse_checkout_list_loading, sparse_checkout_dirs, uncommitted_paths,
                   rx, threads, git_sparse, merge_log, cleared, submitted, ops>>

\* An expand that fetches whether or not the children are loaded.
load_children_and_expand_again(global_idx) ==
    LET item == items[global_idx]
    IN IF item.is_loading
       THEN UNCHANGED <<items, filtered_item_indices, threads, ops>>
       ELSE /\ CanStart
            /\ ops.fetch < budget.fetch
            /\ items' = [items EXCEPT ![global_idx].is_loading = TRUE]
            /\ spawn(Thread("fetch", global_idx, item.path, {}))
            /\ ops' = [ops EXCEPT !.fetch = @ + 1]
            /\ UNCHANGED filtered_item_indices

\* load_children_and_expand(global_idx): the new items, the new visible list and
\* the thread it spawns, if any.
load_children_and_expand(global_idx) ==
    LET item == items[global_idx]
    IN IF item.children_loaded
       THEN IF item.children_indices # <<>>
            THEN LET its2 == [items EXCEPT ![global_idx].is_expanded = TRUE]
                 IN /\ items' = its2
                    /\ filtered_item_indices' = build_visible_items(its2)
                    /\ UNCHANGED <<threads, ops>>
            ELSE UNCHANGED <<items, filtered_item_indices, threads, ops>>
       ELSE IF item.is_loading
            THEN UNCHANGED <<items, filtered_item_indices, threads, ops>>
            ELSE /\ CanStart
                 /\ ops.fetch < budget.fetch
                 /\ items' = [items EXCEPT ![global_idx].is_loading = TRUE]
                 /\ spawn(Thread("fetch", global_idx, item.path, {}))
                 /\ ops' = [ops EXCEPT !.fetch = @ + 1]
                 /\ UNCHANGED filtered_item_indices

expand_selected_item ==
    /\ UNCHANGED <<budget, codec, latest_refresh>>
    /\ last_git_error' = "None"
    /\ IF HasSelected /\ ~items[SelectedIdx].is_expanded
       THEN load_children_and_expand(SelectedIdx)
       ELSE UNCHANGED <<items, filtered_item_indices, threads, ops>>
    /\ UNCHANGED <<path_to_index, selected_item_index, is_applying_changes,
                   is_sparse_checkout_list_loading, sparse_checkout_dirs, uncommitted_paths,
                   rx, git_sparse, merge_log, cleared, submitted>>

\* position(|&idx| idx == parent_idx) in the visible list, 0-based; -1 if absent.
position(seq, x) ==
    IF \E k \in 1..Len(seq) : seq[k] = x
    THEN (CHOOSE k \in 1..Len(seq) : seq[k] = x /\ \A j \in 1..(k - 1) : seq[j] # x) - 1
    ELSE -1

\* A collapse that also collapses the children of the node.
handle_left_key_collapsing_children ==
    /\ UNCHANGED <<budget, codec, latest_refresh>>
    /\ last_git_error' = "None"
    /\ IF HasSelected
       THEN IF items[SelectedIdx].is_expanded
            THEN LET its2 == [i \in DOMAIN items |->
                                IF i = SelectedIdx \/ items[i].parent_index = SelectedIdx
                                THEN [items[i] EXCEPT !.is_expanded = FALSE]
                                ELSE items[i]]
                 IN /\ items' = its2
                    /\ filtered_item_indices' = build_visible_items(its2)
                    /\ UNCHANGED selected_item_index
            ELSE /\ IF items[SelectedIdx].parent_index # NoParent
                       /\ position(filtered_item_indices, items[SelectedIdx].parent_index) # -1
                    THEN selected_item_index' = position(filtered_item_indices, items[SelectedIdx].parent_index)
                    ELSE UNCHANGED selected_item_index
                 /\ UNCHANGED <<items, filtered_item_indices>>
       ELSE UNCHANGED <<items, filtered_item_indices, selected_item_index>>
    /\ UNCHANGED <<path_to_index, is_applying_changes, is_sparse_checkout_list_loading,
                   sparse_checkout_dirs, uncommitted_paths, rx, threads, git_sparse,
                   merge_log, cleared, submitted, ops>>

handle_left_key ==
    /\ UNCHANGED <<budget, codec, latest_refresh>>
    /\ last_git_error' = "None"
    /\ IF HasSelected
       THEN IF items[SelectedIdx].is_expanded
            THEN LET its2 == [items EXCEPT ![SelectedIdx].is_expanded = FALSE]
                 IN /\ items' = its2
                    /\ filtered_item_indices' = build_visible_items(its2)
                    /\ UNCHANGED selected_item_index
            ELSE /\ IF items[SelectedIdx].parent_index # NoParent
                       /\ position(filtered_item_indices, items[SelectedIdx].parent_index) # -1
                    THEN selected_item_index' = position(filtered_item_indices, items[SelectedIdx].parent_index)
                    ELSE UNCHANGED selected_item_index
                 /\ UNCHANGED <<items, filtered_item_indices>>
       ELSE UNCHANGED <<items, filtered_item_indices, selected_item_index>>
    /\ UNCHANGED <<path_to_index, is_applying_changes, is_sparse_checkout_list_loading,
                   sparse_checkout_dirs, uncommitted_paths, rx, threads, git_sparse,
                   merge_log, cleared, submitted, ops>>

\* The marker a toggle leaves on an unlocked item.
toggled(item) ==
    IF item.pending_change = "None"
    THEN (IF item.is_checked_out THEN "Remove" ELSE "Add")
    ELSE "None"

\* A toggle that does not look at the lock.
toggle_selection_unlocked ==
    /\ UNCHANGED <<budget, codec, latest_refresh>>
    /\ last_git_error' = "None"
    /\ IF HasSelected
       THEN /\ ops.toggle < budget.toggle
            /\ items' = update_pending_changes_cache(
                            [items EXCEPT ![SelectedIdx].pending_change = toggled(items[SelectedIdx])],
                            SelectedIdx)
            /\ cleared' = [cleared EXCEPT ![SelectedIdx] = "None"]
            /\ submitted' = [submitted EXCEPT ![SelectedIdx] = "None"]
            /\ ops' = [ops EXCEPT !.toggle = @ + 1]
       ELSE UNCHANGED <<items, cleared, submitted, ops>>
    /\ UNCHANGED <<path_to_index, filtered_item_indices, selected_item_index,
                   is_applying_changes, is_sparse_checkout_list_loading, sparse_checkout_dirs,
                   uncommitted_paths, rx, threads, git_sparse, merge_log>>

toggle_selection ==
    /\ UNCHANGED <<budget, codec, latest_refresh>>
    /\ last_git_error' = "None"
    /\ IF HasSelected /\ ~items[SelectedIdx].is_locked
       THEN /\ ops.toggle < budget.toggle
            /\ items' = update_pending_changes_cache(
                            [items EXCEPT ![SelectedIdx].pending_change = toggled(items[SelectedIdx])],
                            SelectedIdx)
            /\ cleared' = [cleared EXCEPT ![SelectedIdx] = "None"]
            /\ submitted' = [submitted EXCEPT ![SelectedIdx] = "None"]
            /\ ops' = [ops EXCEPT !.toggle = @ + 1]
       ELSE UNCHANGED <<items, cleared, submitted, ops>>
    /\ UNCHANGED <<path_to_index, filtered_item_indices, selected_item_index,
                   is_applying_changes, is_sparse_checkout_list_loading, sparse_checkout_dirs,
                   uncommitted_paths, rx, threads, git_sparse, merge_log>>

\* The set the markers give on top of the cached list instead of the list as re-read.
final_set_from_cache(current_actual, its) ==
    LET marked(m) == {its[i].path : i \in {j \in DOMAIN its : its[j].path # RootPath /\ its[j].pending_change = m}}
    IN (sparse_checkout_dirs \cup marked("Add")) \ marked("Remove")

\* The set apply_changes submits: the list as re-read, plus the paths marked Add,
\* minus the paths marked Remove; the root is skipped.
final_sparse_checkout_set(current_actual, its) ==
    LET marked(m) == {its[i].path : i \in {j \in DOMAIN its : its[j].path # RootPath /\ its[j].pending_change = m}}
    IN (current_actual \cup marked("Add")) \ marked("Remove")

\* Key 'a': main.rs sets the flag, apply_changes re-reads the list on the main
\* thread and, when that succeeds, spawns the thread that writes.
\* An apply that writes from the cached list when the re-read fails.
apply_changes_writing_anyway ==
    /\ UNCHANGED <<budget, codec, latest_refresh>>
    /\ CanStart
    /\ ops.apply < budget.apply
    /\ is_applying_changes' = TRUE
    /\ last_git_error' = "None"
    /\ \E read_ok \in BOOLEAN :
          IF read_ok
          THEN /\ spawn(Thread("apply", -1, <<>>, final_sparse_checkout_set(git_sparse, items)))
               /\ ops' = [ops EXCEPT !.apply = @ + 1]
               /\ UNCHANGED rx
          ELSE /\ CanFail
               /\ rx' = Append(rx, Message("ApplyChangesCompleted", FALSE, -1, {}, -1))
               /\ ops' = [ops EXCEPT !.apply = @ + 1, !.fail = @ + 1]
               /\ spawn(Thread("apply", -1, <<>>,
                               final_sparse_checkout_set(sparse_checkout_dirs, items)))
    /\ submitted' = [i \in DOMAIN items |-> items[i].pending_change]
    /\ UNCHANGED <<items, path_to_index, filtered_item_indices, selected_item_index,
                   is_sparse_checkout_list_loading, sparse_checkout_dirs, uncommitted_paths,
                   git_sparse, merge_log, cleared>>

apply_changes ==
    /\ UNCHANGED <<budget, codec, latest_refresh>>
    /\ CanStart
    /\ ops.apply < budget.apply
    /\ is_applying_changes' = TRUE
    /\ last_git_error' = "None"
    /\ \E read_ok \in BOOLEAN :
          IF read_ok
          THEN /\ spawn(Thread("apply", -1, <<>>, final_sparse_checkout_set(git_sparse, items)))
               /\ ops' = [ops EXCEPT !.apply = @ + 1]
               /\ UNCHANGED rx
          ELSE /\ CanFail
               /\ rx' = Append(rx, Message("ApplyChangesCompleted", FALSE, -1, {}, -1))
               /\ ops' = [ops EXCEPT !.apply = @ + 1, !.fail = @ + 1]
               /\ UNCHANGED threads
    /\ submitted' = [i \in DOMAIN items |-> items[i].pending_change]
    /\ UNCHANGED <<items, path_to_index, filtered_item_indices, selected_item_index,
                   is_sparse_checkout_list_loading, sparse_checkout_dirs, uncommitted_paths,
                   git_sparse, merge_log, cleared>>

\* App::refresh on the items `its`: spawns the thread that reads the list, then
\* reads the uncommitted paths on the calling thread; `?` returns before the
\* assignment when that read fails.
refresh(its, by_key) ==
    /\ is_sparse_checkout_list_loading' = TRUE
    /\ spawn(Thread("refresh", latest_refresh.seq + 1, <<>>, {}))
    /\ latest_refresh' = [NoRefresh EXCEPT !.seq = latest_refresh.seq + 1]
    /\ \E r \in UncommittedReads :
          IF r.ok
          THEN /\ uncommitted_paths' = r.val
               /\ items' = refresh_items(its, sparse_checkout_dirs, r.val)
               /\ ops' = [ops EXCEPT !.refresh = @ + by_key]
          ELSE /\ CanFail
               /\ items' = its
               /\ ops' = [ops EXCEPT !.refresh = @ + by_key, !.fail = @ + 1]
               /\ UNCHANGED uncommitted_paths

\* Key 'r'.
key_refresh ==
    /\ UNCHANGED <<budget, codec>>
    /\ CanStart
    /\ ops.refresh < budget.refresh
    /\ last_git_error' = "None"
    /\ refresh(items, 1)
    /\ UNCHANGED <<path_to_index, filtered_item_indices, selected_item_index,
                   is_applying_changes, sparse_checkout_dirs, rx, git_sparse,
                   merge_log, cleared, submitted>>

\* -------------------------------------------------------- message handlers

\* run_app, AppMessage::ApplyChangesCompleted.
recv_apply_changes_completed ==
    /\ UNCHANGED <<budget, codec>>
    /\ rx # <<>>
    /\ Head(rx).kind = "ApplyChangesCompleted"
    /\ rx' = Tail(rx)
    /\ is_applying_changes' = FALSE
    /\ IF Head(rx).ok
       THEN /\ refresh([i \in DOMAIN items |-> [items[i] EXCEPT !.pending_change = "None"]], 0)
            /\ cleared' = [i \in DOMAIN items |->
                              IF items[i].pending_change # "None"
                              THEN items[i].pending_change ELSE cleared[i]]
            /\ UNCHANGED last_git_error
       ELSE /\ last_git_error' = GitError
            /\ UNCHANGED <<items, uncommitted_paths, is_sparse_checkout_list_loading,
                           threads, cleared, ops, latest_refresh>>
    /\ UNCHANGED <<path_to_index, filtered_item_indices, selected_item_index,
                   sparse_checkout_dirs, git_sparse, merge_log, submitted>>

\* The item an Err clears: items.iter_mut().find(|i| i.is_loading); -1 if none.
find_loading(its) ==
    IF \E i \in DOMAIN its : its[i].is_loading
    THEN CHOOSE i \in DOMAIN its : its[i].is_loading /\ \A j \in 0..(i - 1) : ~its[j].is_loading
    ELSE -1

\* A handler that creates the nodes of a listing without entering them in the lookup.
children_loaded_ok_unindexed(its, p2i, parent_idx, sub_dirs, sco, unc) ==
    LET its1 == [its EXCEPT ![parent_idx].is_loading = FALSE,
                            ![parent_idx].children_loaded = TRUE]
        m == merge_children(its1, p2i, parent_idx, sorted(sub_dirs), sco, unc)
        its2 == IF m[1][parent_idx].children_indices # <<>>
                THEN [m[1] EXCEPT ![parent_idx].is_expanded = TRUE]
                ELSE m[1]
    IN <<update_tree_item_states(its2, sco), p2i>>

\* A handler that gives a listing to the first node still loading, whatever node
\* the result names.
children_loaded_ok_first_loading(its, p2i, parent_idx, sub_dirs, sco, unc) ==
    LET target == IF find_loading(its) # -1 THEN find_loading(its) ELSE parent_idx
        its1 == [its EXCEPT ![target].is_loading = FALSE,
                            ![target].children_loaded = TRUE]
        m == merge_children(its1, p2i, target, sorted(sub_dirs), sco, unc)
        its2 == IF m[1][target].children_indices # <<>>
                THEN [m[1] EXCEPT ![target].is_expanded = TRUE]
                ELSE m[1]
    IN <<update_tree_item_states(its2, sco), m[2]>>

\* handle_children_loaded, Ok((parent_idx, sub_dirs)): <<items, path_to_index>>
\* before the visible list is rebuilt.
children_loaded_ok(its, p2i, parent_idx, sub_dirs, sco, unc) ==
    LET its1 == [its EXCEPT ![parent_idx].is_loading = FALSE,
                            ![parent_idx].children_loaded = TRUE]
        m == merge_children(its1, p2i, parent_idx, sorted(sub_dirs), sco, unc)
        its2 == IF m[1][parent_idx].children_indices # <<>>
                THEN [m[1] EXCEPT ![parent_idx].is_expanded = TRUE]
                ELSE m[1]
    IN <<update_tree_item_states(its2, sco), m[2]>>

\* handle_children_loaded, Ok, with the cache update that ends it:
\* <<items, path_to_index>> after the handler.
children_loaded(its, p2i, parent_idx, sub_dirs, sco, unc) ==
    LET r == children_loaded_ok(its, p2i, parent_idx, sub_dirs, sco, unc)
    IN <<update_pending_changes_cache(r[1], parent_idx), r[2]>>

handle_children_loaded ==
    /\ UNCHANGED <<budget, codec, latest_refresh>>
    /\ rx # <<>>
    /\ Head(rx).kind = "ChildrenLoaded"
    /\ rx' = Tail(rx)
    /\ IF Head(rx).ok
       THEN LET parent_idx == Head(rx).parent_idx
                r == children_loaded_ok(items, path_to_index, parent_idx, Head(rx).val,
                                        sparse_checkout_dirs, uncommitted_paths)
            IN /\ items' = children_loaded(items, path_to_index, parent_idx, Head(rx).val,
                                            sparse_checkout_dirs, uncommitted_paths)[1]
               /\ path_to_index' = r[2]
               /\ filtered_item_indices' = build_visible_items(r[1])
               /\ merge_log' = [i \in DOMAIN r[1] |->
                                  IF i = parent_idx THEN Append(merge_log[i], Head(rx).val)
                                  ELSE IF i \in DOMAIN merge_log THEN merge_log[i] ELSE <<>>]
               /\ cleared' = [i \in DOMAIN r[1] |-> IF i \in DOMAIN cleared THEN cleared[i] ELSE "None"]
               /\ submitted' = [i \in DOMAIN r[1] |-> IF i \in DOMAIN submitted THEN submitted[i] ELSE "None"]
               /\ UNCHANGED last_git_error
       ELSE /\ items' = (IF find_loading(items) # -1
                         THEN [items EXCEPT ![find_loading(items)].is_loading = FALSE]
                         ELSE items)
            /\ last_git_error' = GitError
            /\ UNCHANGED <<path_to_index, filtered_item_indices, merge_log, cleared, submitted>>
    /\ UNCHANGED <<selected_item_index, is_applying_changes, is_sparse_checkout_list_loading,
                   sparse_checkout_dirs, uncommitted_paths, threads, git_sparse, ops>>

\* A loop that only ever sets the flag: a node that left the list keeps it.
set_checked_out_only_added(item, list) ==
    [item EXCEPT !.is_checked_out = item.is_checked_out \/ item.path \in list]

\* The first loop of handle_sparse_checkout_list_loaded, one item.
set_checked_out_from_list(item, list) == [item EXCEPT !.is_checked_out = item.path \in list]

\* A handler that takes a failed read of the list for an empty list.
handle_sparse_checkout_list_loaded_emptying ==
    /\ UNCHANGED <<budget, codec, latest_refresh>>
    /\ rx # <<>>
    /\ Head(rx).kind = "SparseCheckoutListLoaded"
    /\ rx' = Tail(rx)
    /\ is_sparse_checkout_list_loading' = FALSE
    /\ LET list == IF Head(rx).ok THEN Head(rx).val ELSE {}
           its1 == update_tree_item_states(
                       [i \in DOMAIN items |-> set_checked_out_from_list(items[i], list)], list)
       IN /\ sparse_checkout_dirs' = list
          /\ filtered_item_indices' = build_visible_items(its1)
          /\ items' = rebuild_cache(its1)
          /\ last_git_error' = IF Head(rx).ok THEN last_git_error ELSE GitError
    /\ UNCHANGED <<path_to_index, selected_item_index, is_applying_changes,
                   uncommitted_paths, threads, git_sparse, merge_log, cleared, submitted, ops>>

\* The refresh thread sends SparseCheckoutListLoaded; the main loop hands it to
\* handle_sparse_checkout_list_loaded.
handle_sparse_checkout_list_loaded ==
    /\ UNCHANGED <<budget, codec, latest_refresh>>
    /\ rx # <<>>
    /\ Head(rx).kind = "SparseCheckoutListLoaded"
    /\ rx' = Tail(rx)
    /\ is_sparse_checkout_list_loading' = FALSE
    /\ IF Head(rx).ok
       THEN LET list == Head(rx).val
                its1 == update_tree_item_states(
                            [i \in DOMAIN items |-> set_checked_out_from_list(items[i], list)], list)
            IN /\ sparse_checkout_dirs' = list
               /\ filtered_item_indices' = build_visible_items(its1)
               /\ items' = rebuild_cache(its1)
               /\ UNCHANGED last_git_error
       ELSE /\ last_git_error' = GitError
            /\ UNCHANGED <<items, filtered_item_indices, sparse_checkout_dirs>>
    /\ UNCHANGED <<path_to_index, selected_item_index, is_applying_changes,
                   uncommitted_paths, threads, git_sparse, merge_log, cleared, submitted, ops>>

\* ------------------------------------------------------------- the threads

replace_thread(t, t2) == threads' = (threads (-) SetToBag({t})) (+) SetToBag({t2})

\* A fetch thread that clears its node's loading flag itself.
fetch_thread_writing ==
    /\ UNCHANGED <<budget, codec, latest_refresh>>
    /\ \E t \in BagToSet(threads) :
          /\ t.kind = "fetch"
          /\ threads' = threads (-) SetToBag({t})
          /\ \E listing \in Listings(t.path, budget.head_moves) :
                rx' = Append(rx, Message("ChildrenLoaded", TRUE, t.idx, listing, t.idx))
          /\ items' = [items EXCEPT ![t.idx].is_loading = FALSE]
    /\ UNCHANGED <<path_to_index, filtered_item_indices, selected_item_index,
                   last_git_error, is_applying_changes, is_sparse_checkout_list_loading,
                   sparse_checkout_dirs, uncommitted_paths, git_sparse, merge_log, cleared,
                   submitted, ops>>

\* The fetch thread: git::get_dirs_at_path lists what HEAD holds under the path at
\* that moment, or fails, and the thread sends the result.  The listing depends on
\* nothing the program or the other threads change, so the call and the send are
\* one step.
fetch_thread ==
    /\ UNCHANGED <<budget, codec, latest_refresh>>
    /\ \E t \in BagToSet(threads) :
          /\ t.kind = "fetch"
          /\ threads' = threads (-) SetToBag({t})
          /\ \/ /\ \E listing \in Listings(t.path, budget.head_moves) :
                      rx' = Append(rx, Message("ChildrenLoaded", TRUE, t.idx, listing, t.idx))
                /\ UNCHANGED ops
             \/ /\ CanFail
                /\ rx' = Append(rx, Message("ChildrenLoaded", FALSE, -1, {}, t.idx))
                /\ ops' = [ops EXCEPT !.fail = @ + 1]
    /\ UNCHANGED <<items, path_to_index, filtered_item_indices, selected_item_index,
                   last_git_error, is_applying_changes, is_sparse_checkout_list_loading,
                   sparse_checkout_dirs, uncommitted_paths, git_sparse, merge_log, cleared, submitted>>

\* The apply thread's call: git::set_sparse_checkout_dirs writes the set, or fails.
apply_thread_call ==
    /\ UNCHANGED <<budget, codec, latest_refresh>>
    /\ \E t \in BagToSet(threads) :
          /\ t.kind = "apply" /\ t.pc = "call"
          /\ \/ /\ replace_thread(t, [t EXCEPT !.pc = "send", !.ok = TRUE])
                /\ git_sparse' = t.dirs
                /\ UNCHANGED ops
             \/ /\ CanFail
                /\ replace_thread(t, [t EXCEPT !.pc = "send", !.ok = FALSE])
                /\ ops' = [ops EXCEPT !.fail = @ + 1]
                /\ UNCHANGED git_sparse
    /\ UNCHANGED <<items, path_to_index, filtered_item_indices, selected_item_index,
                   last_git_error, is_applying_changes, is_sparse_checkout_list_loading,
                   sparse_checkout_dirs, uncommitted_paths, rx, merge_log, cleared, submitted>>

\* The refresh thread's call: git::get_sparse_checkout_list reads the set, or fails.
refresh_thread_call ==
    /\ UNCHANGED <<budget, codec>>
    /\ \E t \in BagToSet(threads) :
          /\ t.kind = "refresh" /\ t.pc = "call"
          /\ \/ /\ replace_thread(t, [t EXCEPT !.pc = "send", !.ok = TRUE, !.val = git_sparse])
                /\ latest_refresh' = (IF t.idx = latest_refresh.seq
                                      THEN [latest_refresh EXCEPT !.done = TRUE, !.ok = TRUE,
                                                                  !.val = git_sparse]
                                      ELSE latest_refresh)
                /\ UNCHANGED ops
             \/ /\ CanFail
                /\ replace_thread(t, [t EXCEPT !.pc = "send", !.ok = FALSE])
                /\ latest_refresh' = (IF t.idx = latest_refresh.seq
                                      THEN [latest_refresh EXCEPT !.done = TRUE]
                                      ELSE latest_refresh)
                /\ ops' = [ops EXCEPT !.fail = @ + 1]
    /\ UNCHANGED <<items, path_to_index, filtered_item_indices, selected_item_index,
                   last_git_error, is_applying_changes, is_sparse_checkout_list_loading,
                   sparse_checkout_dirs, uncommitted_paths, rx, git_sparse, merge_log, cleared, submitted>>

\* The message a thread sends once its call has returned.
result_message(t) ==
    IF t.kind = "apply"
    THEN Message("ApplyChangesCompleted", t.ok, -1, {}, -1)
    ELSE Message("SparseCheckoutListLoaded", t.ok, -1, t.val, -1)

\* A thread that ends without sending its result.
thread_exit_silent ==
    /\ UNCHANGED <<budget, codec, latest_refresh>>
    /\ \E t \in BagToSet(threads) :
          /\ t.pc = "send"
          /\ threads' = threads (-) SetToBag({t})
    /\ UNCHANGED <<items, path_to_index, filtered_item_indices, selected_item_index,
                   last_git_error, is_applying_changes, is_sparse_checkout_list_loading,
                   sparse_checkout_dirs, uncommitted_paths, git_sparse, merge_log, cleared,
                   submitted, ops, rx>>

\* tx_clone.send(...): the last step of an apply thread or a refresh thread.
thread_send ==
    /\ UNCHANGED <<budget, codec, latest_refresh>>
    /\ \E t \in BagToSet(threads) :
          /\ t.pc = "send"
          /\ rx' = Append(rx, result_message(t))
          /\ threads' = threads (-) SetToBag({t})
    /\ UNCHANGED <<items, path_to_index, filtered_item_indices, selected_item_index,
                   last_git_error, is_applying_changes, is_sparse_checkout_list_loading,
                   sparse_checkout_dirs, uncommitted_paths, git_sparse, merge_log, cleared, submitted, ops>>

\* Another process rewrites the repository's sparse-checkout set.
external_edit ==
    /\ UNCHANGED <<budget, codec, latest_refresh>>
    /\ ops.external < budget.external
    /\ \E set \in ExternalSets \ {git_sparse} : git_sparse' = set
    /\ ops' = [ops EXCEPT !.external = @ + 1]
    /\ UNCHANGED <<items, path_to_index, filtered_item_indices, selected_item_index,
                   last_git_error, is_applying_changes, is_sparse_checkout_list_loading,
                   sparse_checkout_dirs, uncommitted_paths, rx, threads, merge_log,
                   cleared, submitted>>

\* ------------------------------------------------------------------- Next

Next ==
    \/ move_cursor_up
    \/ move_cursor_down
    \/ move_cursor_page_up
    \/ move_cursor_page_down
    \/ expand_selected_item
    \/ handle_left_key
    \/ toggle_selection
    \/ apply_changes
    \/ key_refresh
    \/ recv_apply_changes_completed
    \/ handle_children_loaded
    \/ handle_sparse_checkout_list_loaded
    \/ fetch_thread
    \/ apply_thread_call
    \/ refresh_thread_call
    \/ thread_send
    \/ external_edit

Spec == Init /\ [][Next]_vars

\* Spec with the threads scheduled: a spawned thread is an OS thread that runs
\* its one git command and sends, whatever the main loop does.
LiveSpec ==
    /\ Spec
    /\ WF_vars(fetch_thread) /\ WF_vars(apply_thread_call)
    /\ WF_vars(refresh_thread_call) /\ WF_vars(thread_send)

\* ------------------------------------------------------------ the path codec
\* A string is the sequence of its chars (Unicode scalar values); a byte vector
\* is a sequence of numbers below 256.

\* char::is_whitespace, which str::trim uses.
is_whitespace(c) ==
    \/ c \in {9, 10, 11, 12, 13, 32, 133, 160, 5760, 8232, 8233, 8239, 8287, 12288}
    \/ c \in 8192..8202

RECURSIVE trim_start(_)
trim_start(s) ==
    IF s # <<>> /\ is_whitespace(Head(s)) THEN trim_start(Tail(s)) ELSE s

RECURSIVE trim_end(_)
trim_end(s) ==
    IF s # <<>> /\ is_whitespace(s[Len(s)]) THEN trim_end(SubSeq(s, 1, Len(s) - 1)) ELSE s

\* str::trim.
trim(s) == trim_end(trim_start(s))

\* char::encode_utf8: the bytes of one char.
encode_utf8(c) ==
    IF c < 128 THEN <<c>>
    ELSE IF c < 2048 THEN <<192 + (c \div 64), 128 + (c % 64)>>
    ELSE IF c < 65536
         THEN <<224 + (c \div 4096), 128 + ((c \div 64) % 64), 128 + (c % 64)>>
         ELSE <<240 + (c \div 262144), 128 + ((c \div 4096) % 64),
                128 + ((c \div 64) % 64), 128 + (c % 64)>>

\* str::as_bytes: the UTF-8 bytes of a string.
RECURSIVE as_bytes(_)
as_bytes(s) ==
    IF s = <<>> THEN <<>> ELSE encode_utf8(Head(s)) \o as_bytes(Tail(s))

\* The replacement character U+FFFD.
REPLACEMENT_CHARACTER == 65533

\* String::from_utf8_lossy: well-formed sequences become their char, every
\* maximal ill-formed prefix becomes U+FFFD.
RECURSIVE from_utf8_lossy(_)
from_utf8_lossy(b) ==
    IF b = <<>> THEN <<>>
    ELSE LET n == Len(b)
             at(k) == IF k <= n THEN b[k] ELSE -1
             cont(k) == at(k) \in 128..191
             rest(k) == from_utf8_lossy(SubSeq(b, k + 1, n))
             bad(k) == <<REPLACEMENT_CHARACTER>> \o rest(k)
             b1 == b[1]
         IN IF b1 < 128 THEN <<b1>> \o rest(1)
            ELSE IF b1 \in 194..223
                 THEN IF cont(2)
                      THEN <<(b1 - 192) * 64 + (at(2) - 128)>> \o rest(2)
                      ELSE bad(1)
            ELSE IF b1 \in 224..239
                 THEN LET lo == IF b1 = 224 THEN 160 ELSE 128
                          hi == IF b1 = 237 THEN 159 ELSE 191
                      IN IF at(2) \notin lo..hi THEN bad(1)
                         ELSE IF ~cont(3) THEN bad(2)
                         ELSE <<(b1 - 224) * 4096 + (at(2) - 128) * 64 + (at(3) - 128)>>
                                  \o rest(3)
            ELSE IF b1 \in 240..244
                 THEN LET lo == IF b1 = 240 THEN 144 ELSE 128
                          hi == IF b1 = 244 THEN 143 ELSE 191
                      IN IF at(2) \notin lo..hi THEN bad(1)
                         ELSE IF ~cont(3) THEN bad(2)
                         ELSE IF ~cont(4) THEN bad(3)
                         ELSE <<(b1 - 240) * 262144 + (at(2) - 128) * 4096
                                  + (at(3) - 128) * 64 + (at(4) - 128)>> \o rest(4)
            ELSE bad(1)

\* char::is_ascii_digit.
is_ascii_digit(c) == c \in 48..57

\* u8::from_str_radix(&format!("{}{}{}", d1, d2, d3), 8): the byte, or -1 for Err
\* (a digit 8 or 9, or a value above 255).
from_str_radix_8(d1, d2, d3) ==
    IF d1 \in 48..55 /\ d2 \in 48..55 /\ d3 \in 48..55
       /\ (d1 - 48) * 64 + (d2 - 48) * 8 + (d3 - 48) <= 255
    THEN (d1 - 48) * 64 + (d2 - 48) * 8 + (d3 - 48)
    ELSE -1

\* An octal parse that never succeeds.
octal_escape_never(d1, d2, d3) == -1

\* The octal arm: the byte of a valid \ddd, -1 otherwise.
octal_escape(d1, d2, d3) ==
    IF is_ascii_digit(d2) /\ is_ascii_digit(d3) THEN from_str_radix_8(d1, d2, d3) ELSE -1

\* The while loop of unescape_git_path_string from char i on: result_bytes.
RECURSIVE unescape_loop(_, _)
unescape_loop(chars, i) ==
    IF i > Len(chars) THEN <<>>
    ELSE LET c == chars[i]
         IN IF c = 92
            THEN IF i + 1 <= Len(chars)
                 THEN LET next_c == chars[i + 1]
                      IN IF next_c = 110 THEN <<10>> \o unescape_loop(chars, i + 2)
                         ELSE IF next_c = 116 THEN <<9>> \o unescape_loop(chars, i + 2)
                         ELSE IF next_c = 114 THEN <<13>> \o unescape_loop(chars, i + 2)
                         ELSE IF next_c = 92 THEN <<92>> \o unescape_loop(chars, i + 2)
                         ELSE IF next_c = 34 THEN <<34>> \o unescape_loop(chars, i + 2)
                         ELSE IF next_c \in 48..55
                              THEN LET has2 == i + 2 <= Len(chars)
                                       has3 == i + 3 <= Len(chars)
                                       byte_val == IF has2 /\ has3
                                                   THEN octal_escape(next_c, chars[i + 2], chars[i + 3])
                                                   ELSE -1
                                   IN IF byte_val >= 0
                                      THEN <<byte_val>> \o unescape_loop(chars, i + 4)
                                      ELSE <<92>> \o encode_utf8(next_c)
                                              \o (IF has2 THEN encode_utf8(chars[i + 2]) ELSE <<>>)
                                              \o (IF has3 THEN encode_utf8(chars[i + 3]) ELSE <<>>)
                                              \o unescape_loop(chars, i + 4)
                              ELSE <<92>> \o encode_utf8(next_c) \o unescape_loop(chars, i + 2)
                 ELSE <<92>>
            ELSE encode_utf8(c) \o unescape_loop(chars, i + 1)

\* A strip that takes off every layer of outer quotes.
RECURSIVE remove_all_quotes(_)
remove_all_quotes(t) ==
    IF Len(t) >= 2 /\ t[1] = 34 /\ t[Len(t)] = 34
    THEN remove_all_quotes(SubSeq(t, 2, Len(t) - 1))
    ELSE t

\* The text between the outer quotes, when the trimmed input has them.
remove_outer_quotes(t) ==
    IF Len(t) >= 2 /\ t[1] = 34 /\ t[Len(t)] = 34
    THEN SubSeq(t, 2, Len(t) - 1)
    ELSE t

\* git::unescape_git_path_string.
unescape_git_path_string(s) ==
    from_utf8_lossy(unescape_loop(remove_outer_quotes(trim(s)), 1))
\* The three octal digits of a byte.
octal_digits(b) == <<48 + (b \div 64), 48 + ((b \div 8) % 8), 48 + (b % 8)>>

\* The byte needs no quoting: printable ASCII other than space, '"' and '\'.
is_safe_byte(b) == b \in 33..126 /\ b # 34 /\ b # 92

\* One byte inside the quotes: the short forms, the byte itself when printable,
\* \ddd otherwise.
escape_byte(b) ==
    IF b = 92 THEN <<92, 92>>
    ELSE IF b = 34 THEN <<92, 34>>
    ELSE IF b = 10 THEN <<92, 110>>
    ELSE IF b = 9 THEN <<92, 116>>
    ELSE IF b = 13 THEN <<92, 114>>
    ELSE IF b \in 32..126 THEN <<b>>
    ELSE <<92>> \o octal_digits(b)

RECURSIVE escape_bytes(_)
escape_bytes(b) ==
    IF b = <<>> THEN <<>> ELSE escape_byte(Head(b)) \o escape_bytes(Tail(b))

\* quote_path_string, the encoder: the name itself when every byte is safe, the
\* quoted and escaped form otherwise.
quote_path_string(s) ==
    IF \A k \in 1..Len(as_bytes(s)) : is_safe_byte(as_bytes(s)[k])
    THEN s
    ELSE <<34>> \o escape_bytes(as_bytes(s)) \o <<34>>

\* Units of text an input is put together from.
MaxUnits == 3

\* The units: plain chars (two of them control characters), the quote, the five
\* short forms, octal escapes (the three bytes of U+3042 in a run, its first byte
\* alone, a space, one above 255) and a lone backslash.
Units ==
    { "a", "space", "hiragana_a", "3", "8", "newline", "bell", "quote",
      "\\n", "\\t", "\\r", "\\\\", "\\quote",
      "\\343\\201\\202", "\\343", "\\040", "\\400", "\\" }

\* The chars of a unit.
UnitText(u) ==
    CASE u = "a" -> <<97>>
      [] u = "space" -> <<32>>
      [] u = "hiragana_a" -> <<12354>>
      [] u = "3" -> <<51>>
      [] u = "8" -> <<56>>
      [] u = "newline" -> <<10>>
      [] u = "bell" -> <<7>>
      [] u = "quote" -> <<34>>
      [] u = "\\n" -> <<92, 110>>
      [] u = "\\t" -> <<92, 116>>
      [] u = "\\r" -> <<92, 114>>
      [] u = "\\\\" -> <<92, 92>>
      [] u = "\\quote" -> <<92, 34>>
      [] u = "\\343" -> <<92, 51, 52, 51>>
      [] u = "\\343\\201\\202" -> <<92, 51, 52, 51, 92, 50, 48, 49, 92, 50, 48, 50>>
      [] u = "\\040" -> <<92, 48, 52, 48>>
      [] u = "\\400" -> <<92, 52, 48, 48>>
      [] u = "\\" -> <<92>>

\* The string a sequence of units spells.
RECURSIVE Text(_)
Text(us) == IF us = <<>> THEN <<>> ELSE UnitText(Head(us)) \o Text(Tail(us))

\* The sequences of at most n units.
RECURSIVE UnitSeqs(_)
UnitSeqs(n) ==
    IF n = 0 THEN {<<>>}
    ELSE UnitSeqs(n - 1) \cup {Append(us, u) : us \in {x \in UnitSeqs(n - 1) : Len(x) = n - 1}, u \in Units}

\* A run of the codec alone: the program as it starts, and one input.
CodecInit ==
    /\ AppNew(CHOOSE repo \in InitRepo : repo.unc = {}, CHOOSE b \in Budgets : b.head_moves)
    /\ codec \in {[units |-> us, quoted |-> q, op |-> "input", out |-> <<>>] :
                      us \in UnitSeqs(MaxUnits), q \in BOOLEAN}

\* The string handed to the codec: the units' text, inside double quotes or bare.
Input == IF codec.quoted THEN <<34>> \o Text(codec.units) \o <<34>> ELSE Text(codec.units)

\* The tree and the channel, which a call of the codec leaves alone.
app_vars == <<items, path_to_index, filtered_item_indices, selected_item_index,
              last_git_error, is_applying_changes, is_sparse_checkout_list_loading,
              sparse_checkout_dirs, uncommitted_paths, rx, threads, git_sparse,
              merge_log, cleared, submitted, ops, budget, latest_refresh>>

\* A line of git's output is decoded.
decode ==
    /\ codec.op = "input"
    /\ codec' = [codec EXCEPT !.op = "decoded", !.out = unescape_git_path_string(Input)]
    /\ UNCHANGED app_vars

\* A name is encoded for git.
encode ==
    /\ codec.op = "input"
    /\ codec' = [codec EXCEPT !.op = "encoded", !.out = quote_path_string(Input)]
    /\ UNCHANGED app_vars

\* The encoded name comes back from git and is decoded.
decode_encoded ==
    /\ codec.op = "encoded"
    /\ codec' = [codec EXCEPT !.op = "round_trip", !.out = unescape_git_path_string(codec.out)]
    /\ UNCHANGED app_vars

CodecNext ==
    \/ decode
    \/ encode
    \/ decode_encoded

CodecSpec == CodecInit /\ [][CodecNext]_vars

\* ------------------------------------------------------------ properties

\* The strict ancestors of node n, following parent_index.
RECURSIVE Ancestors(_)
Ancestors(n) ==
    IF items[n].parent_index = NoParent THEN {}
    ELSE {items[n].parent_index} \cup Ancestors(items[n].parent_index)

\* The nodes of n's subtree other than n.
StrictDescendants(n) == {m \in DOMAIN items : n \in Ancestors(m)}

\* The nodes that carry a pending marker.
Marked == {n \in DOMAIN items : items[n].pending_change # "None"}

\* The fetch threads running for node n.
FetchThreads(n) == CopiesIn(Thread("fetch", n, items[n].path, {}), threads)

\* The paths of n's children.
ChildPaths(n) ==
    {items[items[n].children_indices[k]].path : k \in 1..Len(items[n].children_indices)}

\* Every path some listing merged into n held.
MergedUnion(n) == UNION {merge_log[n][k] : k \in 1..Len(merge_log[n])}

\* C1: at most one fetch-children operation is in flight for a node at any time,
\* whatever the order of expand requests and of results, failures included.
C1_OneFetchPerNode == \A n \in DOMAIN items : FetchThreads(n) <= 1

\* C2: after the listings merged into a parent, overlapping ones included, the
\* parent has exactly one child per path of their union (the child count is the
\* size of the union) and no path is held by two nodes.
C2_MergeIsUnion ==
    /\ \A n \in DOMAIN items :
          /\ Len(items[n].children_indices) = Cardinality(MergedUnion(n))
          /\ ChildPaths(n) = MergedUnion(n)
    /\ \A i, j \in DOMAIN items : items[i].path = items[j].path => i = j

\* Two listings with a path in common were merged into one parent.
C2_Witness ==
    \E n \in DOMAIN items :
        /\ Len(merge_log[n]) >= 2
        /\ merge_log[n][1] \cap merge_log[n][2] # {}

\* C3: in every state the root's cached pending-change count is the number of
\* nodes of the tree that carry a pending marker.
C3_RootCountsMarkers == items[0].cached_pending_changes = Cardinality(Marked)

\* cached_count(n) = (1 if n is marked else 0) + the sum over n's children.
Recurrence ==
    \A n \in DOMAIN items :
        items[n].cached_pending_changes =
            (IF items[n].pending_change # "None" THEN 1 ELSE 0)
            + SumCached(items, items[n].children_indices)

\* C4: if the recurrence of the cached counts holds at every node before a
\* toggle_selection, it holds at every node after it.
C4_ToggleKeepsRecurrence == [][(toggle_selection /\ Recurrence) => Recurrence']_vars

\* A node two levels below the root is marked, its count has reached the root
\* and the recurrence holds.
C4_Witness ==
    /\ Recurrence
    /\ items[0].cached_pending_changes >= 1
    /\ \E n \in DOMAIN items :
          items[n].indentation_level >= 2 /\ items[n].pending_change # "None"

\* C5: has_checked_out_descendant(n) is true exactly when some node of n's
\* subtree other than n is explicitly checked out.
C5_DescendantFlag ==
    \A n \in DOMAIN items :
        items[n].has_checked_out_descendant
            <=> \E m \in StrictDescendants(n) : items[m].is_checked_out

\* C6: is_implicitly_checked_out(n) is true exactly when some strict ancestor of
\* n other than the root is explicitly or implicitly checked out; the root and
\* the root's children are never implicitly checked out.
C6_ImplicitFromAncestors ==
    /\ \A n \in DOMAIN items :
          items[n].is_implicitly_checked_out
              <=> \E a \in Ancestors(n) \ {0} :
                      items[a].is_checked_out \/ items[a].is_implicitly_checked_out
    /\ \A n \in DOMAIN items :
          (n = 0 \/ items[n].parent_index = 0) => ~items[n].is_implicitly_checked_out

\* A node three levels down is implicit through its grandparent alone, while
\* that grandparent, a child of the checked-out root, is not implicit.
C6_Witness ==
    \E n \in DOMAIN items :
        /\ items[n].indentation_level = 3
        /\ items[n].is_implicitly_checked_out
        /\ ~items[n].is_checked_out
        /\ ~items[items[n].parent_index].is_checked_out
        /\ LET g == items[items[n].parent_index].parent_index
           IN /\ items[g].is_checked_out
              /\ items[g].parent_index = 0
              /\ items[0].is_checked_out
              /\ ~items[g].is_implicitly_checked_out

\* C7: in every reachable state node 0 is the root with path ".", explicitly
\* checked out and locked.
C7_RootFixed ==
    /\ items[0].path = RootPath
    /\ items[0].parent_index = NoParent
    /\ items[0].is_checked_out
    /\ items[0].is_locked

\* C8: when the failed result of the fetch for node n is handled, n's loading
\* flag is cleared, n's children stay as they were, the error is recorded and
\* the loading flags of the other nodes are left as they were.
C8_FailedFetch ==
    [][(rx # <<>> /\ Head(rx).kind = "ChildrenLoaded" /\ ~Head(rx).ok /\ handle_children_loaded)
        => LET n == Head(rx).from
           IN /\ ~items'[n].is_loading
              /\ items'[n].children_loaded = items[n].children_loaded
              /\ items'[n].children_indices = items[n].children_indices
              /\ last_git_error' = GitError
              /\ \A m \in DOMAIN items \ {n} : items'[m].is_loading = items[m].is_loading]_vars

\* No fetch is running and no fetch result waits in the channel.
FetchesDrained ==
    /\ \A t \in BagToSet(threads) : t.kind # "fetch"
    /\ \A k \in 1..Len(rx) : rx[k].kind # "ChildrenLoaded"

\* C9: once every dispatched fetch has delivered its result and the main loop
\* has drained them, no node has its loading flag set.
C9_NoLoadingWhenDrained ==
    FetchesDrained => \A n \in DOMAIN items : ~items[n].is_loading

\* C10: after a successful apply and the refresh that follows it, a marker was
\* cleared only if the checkout set the refresh read matches its intent: an Add that
\* was cleared is checked out, a Remove that was cleared is not.
C10_ClearedMatchesIntent ==
    (threads = EmptyBag /\ rx = <<>>)
        => \A n \in DOMAIN items :
              /\ cleared[n] = "Add" => items[n].path \in sparse_checkout_dirs
              /\ cleared[n] = "Remove" => items[n].path \notin sparse_checkout_dirs

\* Nothing is outstanding: every thread has ended and every message was handled.
Settled ==
    /\ threads = EmptyBag /\ rx = <<>>
    /\ ~is_sparse_checkout_list_loading /\ ~is_applying_changes

\* C11: a node that was marked Add when 'a' was last pressed, whose marker a
\* successful completion took off, has, once every apply has completed without a
\* failure and every refresh result was handled (the refresh that follows the
\* apply among them, the cached list being the repository's set) and no other
\* process wrote the set, its path in the repository's checkout set, no pending
\* marker and its explicit flag set.
C11_AddApplied ==
    (Settled /\ ops.external = 0 /\ ops.fail = 0 /\ sparse_checkout_dirs = git_sparse)
        => \A n \in DOMAIN items :
              (submitted[n] = "Add" /\ cleared[n] = "Add")
                  => /\ items[n].path \in git_sparse
                     /\ items[n].pending_change = "None"
                     /\ items[n].is_checked_out

\* The paths of the nodes other than the root that carry marker m.
MarkedPaths(m) == {items[n].path : n \in {k \in DOMAIN items \ {0} : items[k].pending_change = m}}

\* C12: the set an apply hands to the write is the repository's checkout list as
\* it is when 'a' is pressed (not the cached list), plus the paths marked Add,
\* minus the paths marked Remove; no marker adds or removes the root's path.
C12_SubmittedSet ==
    [][(apply_changes /\ threads' # threads)
        => /\ \E t \in BagToSet(threads') :
                 /\ t.kind = "apply"
                 /\ t.dirs = (git_sparse \cup MarkedPaths("Add")) \ MarkedPaths("Remove")
                 /\ (RootPath \in t.dirs <=> RootPath \in git_sparse)
           /\ items[0].pending_change = "None"]_vars

\* An apply is running whose set differs from what the cached list would have
\* given, with a marker submitted.
C12_Witness ==
    \E t \in BagToSet(threads) :
        /\ t.kind = "apply"
        /\ \E n \in DOMAIN items : submitted[n] # "None"
        /\ git_sparse # sparse_checkout_dirs
        /\ t.dirs # (sparse_checkout_dirs
                        \cup {items[n].path : n \in {k \in DOMAIN items : submitted[k] = "Add"}})
                     \ {items[n].path : n \in {k \in DOMAIN items : submitted[k] = "Remove"}}

\* The Err of an apply is being handled.
ApplyFailedHandled ==
    /\ rx # <<>>
    /\ Head(rx).kind = "ApplyChangesCompleted"
    /\ ~Head(rx).ok
    /\ recv_apply_changes_completed

\* C13: handling the error of a failed apply (the re-read or the write failed)
\* leaves every node's pending marker and cached count as they were, records an
\* error message and resets the applying flag, so a later apply submits the same
\* adds and removes.
C13_FailedApplyKeepsMarkers ==
    [][ApplyFailedHandled
        => /\ DOMAIN items' = DOMAIN items
           /\ \A n \in DOMAIN items :
                 /\ items'[n].pending_change = items[n].pending_change
                 /\ items'[n].cached_pending_changes = items[n].cached_pending_changes
           /\ MarkedPaths("Add")' = MarkedPaths("Add")
           /\ MarkedPaths("Remove")' = MarkedPaths("Remove")
           /\ last_git_error' # "None"
           /\ ~is_applying_changes']_vars

\* After a failed apply the submitted marker is still on its node, counted at
\* the root, with the error shown and the applying flag reset.
C13_Witness ==
    /\ ops.apply >= 1 /\ ops.fail >= 1
    /\ threads = EmptyBag /\ rx = <<>>
    /\ last_git_error # "None"
    /\ ~is_applying_changes
    /\ items[0].cached_pending_changes >= 1
    /\ \E n \in DOMAIN items :
          submitted[n] # "None" /\ items[n].pending_change = submitted[n]

\* C14: a toggle on a locked node (the root, or a node that contains uncommitted
\* changes) changes nothing: its marker and every cached count stay as they were
\* and no error message is set.
C14_LockedToggle ==
    [][(HasSelected /\ items[SelectedIdx].is_locked /\ toggle_selection)
        => /\ items' = items
           /\ last_git_error' = "None"]_vars

\* The cursor is on a locked node other than the root that carries a marker
\* from before it was locked.
C14_Witness ==
    /\ HasSelected
    /\ SelectedIdx # 0
    /\ items[SelectedIdx].is_locked
    /\ items[SelectedIdx].contains_uncommitted_changes
    /\ items[SelectedIdx].pending_change # "None"

\* C15: an expand request on a node whose children are loaded, expanded or not,
\* with children or without, dispatches no fetch: no thread is spawned, no
\* loading flag is set and the count of fetches stays.
C15_LoadedNeverFetches ==
    [][(HasSelected /\ items[SelectedIdx].children_loaded /\ expand_selected_item)
        => /\ threads' = threads
           /\ ops'.fetch = ops.fetch
           /\ \A n \in DOMAIN items : items'[n].is_loading = items[n].is_loading]_vars

\* The cursor is on a loaded node without children, not expanded, with room for
\* a fetch to start.
C15_Witness ==
    /\ HasSelected
    /\ SelectedIdx # 0
    /\ items[SelectedIdx].children_loaded
    /\ items[SelectedIdx].children_indices = <<>>
    /\ ~items[SelectedIdx].is_expanded
    /\ ~items[SelectedIdx].is_loading
    /\ CanStart /\ ops.fetch < budget.fetch

\* C16: once a node's children are loaded, expand leaves it with is_expanded =
\* true also when it has no children: after the Ok result of its fetch is handled,
\* and after any later expand request on it, is_expanded is true.
C16_LoadedLeafExpanded ==
    [][/\ (rx # <<>> /\ Head(rx).kind = "ChildrenLoaded" /\ Head(rx).ok /\ handle_children_loaded)
            => items'[Head(rx).parent_idx].is_expanded
       /\ (HasSelected /\ items[SelectedIdx].children_loaded /\ expand_selected_item)
            => items'[SelectedIdx].is_expanded]_vars

\* The name of a node: the last component of its path.
NodeName(n) == items[n].path[Len(items[n].path)]

\* C17: in every reachable state the child list of every node is in ascending
\* byte order of the children's names, also after several merges into one parent
\* whose listings differ.
C17_ChildrenSorted ==
    \A n \in DOMAIN items :
        \A k \in 1..(Len(items[n].children_indices) - 1) :
            NameLess(NodeName(items[n].children_indices[k]),
                     NodeName(items[n].children_indices[k + 1]))

\* The place of node n in the tree: its position in its parent's child list,
\* after the place of its parent.
RECURSIVE Chain(_)
Chain(n) ==
    IF items[n].parent_index = NoParent THEN <<>>
    ELSE LET ch == items[items[n].parent_index].children_indices
         IN Append(Chain(items[n].parent_index), CHOOSE k \in 1..Len(ch) : ch[k] = n)

\* Depth-first pre-order: an ancestor comes before its descendants, and subtrees
\* come in child-list order.
RECURSIVE ChainBefore(_, _)
ChainBefore(a, b) ==
    IF b = <<>> THEN FALSE
    ELSE IF a = <<>> THEN TRUE
    ELSE IF Head(a) # Head(b) THEN Head(a) < Head(b)
    ELSE ChainBefore(Tail(a), Tail(b))

\* Every strict ancestor of n is expanded.
Shown(n) == \A a \in Ancestors(n) : items[a].is_expanded

\* C18: the visible list is the depth-first pre-order traversal from the root
\* that descends only into expanded nodes: it lists exactly the nodes whose
\* strict ancestors are all expanded, each once, an ancestor before its
\* descendants and subtrees in child-list order.
C18_VisibleIsPreorder ==
    /\ {filtered_item_indices[k] : k \in 1..Len(filtered_item_indices)}
           = {n \in DOMAIN items : Shown(n)}
    /\ \A k \in 1..(Len(filtered_item_indices) - 1) :
          ChainBefore(Chain(filtered_item_indices[k]), Chain(filtered_item_indices[k + 1]))

\* A collapsed node with children is listed, its children are not, and its next
\* sibling follows it.
C18_Witness ==
    \E k \in 1..(Len(filtered_item_indices) - 1) :
        LET n == filtered_item_indices[k]
            m == filtered_item_indices[k + 1]
        IN /\ n # 0
           /\ items[n].children_indices # <<>>
           /\ ~items[n].is_expanded
           /\ items[m].parent_index = items[n].parent_index

\* Node n is in both states of a step with the same path, parent and depth.
SameNode(n) ==
    /\ n \in DOMAIN items'
    /\ items'[n].path = items[n].path
    /\ items'[n].parent_index = items[n].parent_index
    /\ items'[n].indentation_level = items[n].indentation_level

\* C19: no step removes or re-indexes a node: every node keeps its index, path,
\* parent and depth; and a refresh, at its dispatch and at its result, changes
\* neither the node set, nor a child list, nor an expansion flag, nor a marker.
C19_NodesStable ==
    [][/\ \A n \in DOMAIN items : SameNode(n)
       /\ \A p \in DOMAIN path_to_index :
             p \in DOMAIN path_to_index' /\ path_to_index'[p] = path_to_index[p]
       /\ (key_refresh \/ handle_sparse_checkout_list_loaded)
            => /\ DOMAIN items' = DOMAIN items
               /\ \A n \in DOMAIN items :
                     /\ items'[n].children_indices = items[n].children_indices
                     /\ items'[n].is_expanded = items[n].is_expanded
                     /\ items'[n].pending_change = items[n].pending_change]_vars

\* A refresh has brought in a set another process wrote (s/d10 is now explicit)
\* while a marker and an expanded node are still in place.
C19_Witness ==
    /\ ops.refresh >= 1
    /\ ~is_sparse_checkout_list_loading
    /\ \E n \in DOMAIN items : items[n].path = PathD10 /\ items[n].is_checked_out
    /\ \E n \in DOMAIN items : items[n].pending_change # "None"
    /\ \E n \in DOMAIN items \ {0} : items[n].is_expanded

\* The state initialization produced, before any result has been handled: nothing
\* was dispatched and no other process wrote anything.
Pristine ==
    /\ ops.fetch = 0 /\ ops.apply = 0 /\ ops.refresh = 0
    /\ ops.external = 0 /\ ops.fail = 0
    /\ threads = EmptyBag /\ rx = <<>>

Beneath(p, n) ==
    IF n = 0 THEN p # RootPath
    ELSE \E k \in 1..(Len(p) - 1) : SubSeq(p, 1, k) = items[n].path

\* Node n's name is a proper string prefix of the name of a sibling path p.
NamePrefixOfSibling(n, p) ==
    /\ n # 0 /\ Len(p) = Len(items[n].path)
    /\ SubSeq(p, 1, Len(p) - 1) = SubSeq(items[n].path, 1, Len(p) - 1)
    /\ p # items[n].path
    /\ StringPrefix(PathString(items[n].path), PathString(p))

\* C21: a node that is not explicitly checked out has has_checked_out_descendant
\* exactly when some path of the checkout list lies strictly beneath its path,
\* component by component; a node whose name is only a string prefix of a listed
\* sibling's name (d1 against d10), with nothing listed beneath it and not listed
\* itself, has neither its explicit flag nor has_checked_out_descendant.
C21_DescendantByComponents ==
    /\ \A n \in DOMAIN items :
          ~items[n].is_checked_out
              => (items[n].has_checked_out_descendant
                     <=> \E p \in sparse_checkout_dirs : Beneath(p, n))
    /\ \A n \in DOMAIN items :
          (/\ \E p \in sparse_checkout_dirs : NamePrefixOfSibling(n, p)
           /\ items[n].path \notin sparse_checkout_dirs
           /\ ~\E p \in sparse_checkout_dirs : Beneath(p, n))
              => ~items[n].is_checked_out /\ ~items[n].has_checked_out_descendant

\* s/d1 is in the tree beside the listed s/d10 and carries neither flag, while
\* its parent s, itself not listed, carries has_checked_out_descendant.
C21_Witness ==
    \E n \in DOMAIN items :
        /\ \E p \in sparse_checkout_dirs : NamePrefixOfSibling(n, p)
        /\ ~items[n].is_checked_out /\ ~items[n].has_checked_out_descendant
        /\ items[n].parent_index # 0
        /\ ~items[items[n].parent_index].is_checked_out
        /\ items[items[n].parent_index].has_checked_out_descendant

\* A step of a thread: its call, or the send of its result.
WorkerStep == fetch_thread \/ apply_thread_call \/ refresh_thread_call \/ thread_send

\* A step of the main loop: a key, or the handling of one message.
MainLoopStep ==
    \/ move_cursor_up \/ move_cursor_down \/ move_cursor_page_up \/ move_cursor_page_down
    \/ expand_selected_item \/ handle_left_key
    \/ toggle_selection \/ apply_changes \/ key_refresh
    \/ recv_apply_changes_completed \/ handle_children_loaded
    \/ handle_sparse_checkout_list_loaded

\* The nodes, the path lookup, the visible list and the cursor.
Tree == <<items, path_to_index, filtered_item_indices, selected_item_index>>

\* C22: a step of a thread (its git call, the send of its result) leaves every
\* node, the path lookup, the visible list and the cursor as they were; whenever
\* one of them changes, the step is a step of the main loop.
C22_WorkersLeaveTree ==
    [][/\ WorkerStep => Tree' = Tree
       /\ Tree' # Tree => MainLoopStep]_vars

\* A fetch thread has listed directories and sent them; its node is still
\* loading and childless, the result not yet handled.
C22_Witness ==
    \E k \in 1..Len(rx) :
        /\ rx[k].kind = "ChildrenLoaded" /\ rx[k].ok /\ rx[k].val # {}
        /\ items[rx[k].parent_idx].is_loading
        /\ ~items[rx[k].parent_idx].children_loaded
        /\ items[rx[k].parent_idx].children_indices = <<>>

\* The message kind a thread of kind k sends.
MessageKind(k) ==
    IF k = "fetch" THEN "ChildrenLoaded"
    ELSE IF k = "apply" THEN "ApplyChangesCompleted"
    ELSE "SparseCheckoutListLoaded"

\* One thread ends in this step and the channel receives exactly its message.
OneThreadPosts ==
    \E t \in BagToSet(threads) :
        /\ threads' = threads (-) SetToBag({t})
        /\ Len(rx') = Len(rx) + 1
        /\ SubSeq(rx', 1, Len(rx)) = rx
        /\ rx'[Len(rx')].kind = MessageKind(t.kind)

\* This step dispatches exactly one operation: one thread more and the channel
\* as it was or, for an apply whose re-read of the list failed, no thread and one
\* failed ApplyChangesCompleted on the channel.
OneDispatch ==
    \/ /\ BagCardinality(threads') = BagCardinality(threads) + 1
       /\ rx' = rx
    \/ /\ apply_changes /\ threads' = threads
       /\ rx' = Append(rx, Message("ApplyChangesCompleted", FALSE, -1, {}, -1))

\* C23: every dispatched operation (fetch, apply, refresh) posts exactly one
\* result message, whether it succeeds or fails.  A dispatch adds one thread (or,
\* when the apply's own read fails, one message); a thread leaves only by
\* appending exactly one message of its kind; a message is appended only that
\* way; the refresh after an apply takes one message and adds one thread; and
\* every thread ends.
C23_OneMessagePerDispatch ==
    /\ [][/\ (apply_changes \/ key_refresh) => OneDispatch
          /\ (expand_selected_item /\ threads' # threads) => OneDispatch
          /\ (recv_apply_changes_completed /\ threads' # threads)
                => /\ BagCardinality(threads') = BagCardinality(threads) + 1
                   /\ rx' = Tail(rx)
          /\ BagCardinality(threads') < BagCardinality(threads) => OneThreadPosts
          /\ Len(rx') > Len(rx)
                => OneThreadPosts \/ (apply_changes /\ OneDispatch)]_vars
    /\ (threads # EmptyBag) ~> (threads = EmptyBag)

\* Two fetches were in flight together, one succeeded and one failed; both
\* threads have ended and the channel holds one message for each.
C23_Witness ==
    /\ threads = EmptyBag
    /\ ops.fail = 1
    /\ Len(rx) = 2
    /\ rx[1].kind = "ChildrenLoaded" /\ rx[2].kind = "ChildrenLoaded"
    /\ rx[1].ok # rx[2].ok

\* A failed result of any kind is being handled.
FailedResultHandled ==
    /\ rx # <<>> /\ ~Head(rx).ok
    /\ \/ recv_apply_changes_completed
       \/ handle_children_loaded
       \/ handle_sparse_checkout_list_loaded

\* Node n, all but its loading flag.
Kept(n) == [items[n] EXCEPT !.is_loading = FALSE]

\* C24: handling a failed result (fetch, apply or refresh) adds no node and
\* changes no node's path, children, explicit flag, derived flags, lock flags,
\* expansion or pending marker, nor the path lookup, the visible list, the cursor
\* or the cached lists; only the error message, the loading flag of a node and the
\* two progress flags can change, and the error is recorded.
C24_FailureKeepsTree ==
    [][FailedResultHandled
        => /\ DOMAIN items' = DOMAIN items
           /\ \A n \in DOMAIN items : Kept(n)' = Kept(n)
           /\ \A n \in DOMAIN items : items'[n].is_loading => items[n].is_loading
           /\ path_to_index' = path_to_index
           /\ filtered_item_indices' = filtered_item_indices
           /\ selected_item_index' = selected_item_index
           /\ sparse_checkout_dirs' = sparse_checkout_dirs
           /\ uncommitted_paths' = uncommitted_paths
           /\ last_git_error' = GitError]_vars

\* A failure was handled and is on display over a tree that has loaded children,
\* a checked-out node and a pending marker.
C24_Witness ==
    /\ last_git_error = GitError
    /\ rx = <<>> /\ threads = EmptyBag
    /\ \E n \in DOMAIN items \ {0} : items[n].pending_change # "None"
    /\ \E n \in DOMAIN items \ {0} : items[n].is_checked_out
    /\ \E n \in DOMAIN items \ {0} : items[n].children_indices # <<>>

\* C25: after startup a step of the main loop runs no git command: none fails
\* inside it, and the uncommitted paths it holds, which no message carries, stay
\* as they are (every read, listing and write happens in a thread).
C25_MainLoopRunsNoGit ==
    [][MainLoopStep
        => /\ ops'.fail = ops.fail
           /\ uncommitted_paths' = uncommitted_paths]_vars

Wrapped(s) == Len(s) >= 2 /\ s[1] = 34 /\ s[Len(s)] = 34

\* C27: decoding an input that is not wrapped in double quotes returns the input
\* unchanged.
C27_UnquotedUnchanged ==
    (codec.op = "decoded" /\ ~Wrapped(Input))
        => codec.out = Input

\* The units that are text as git writes it inside quotes: plain chars, the
\* short forms and octal escapes of bytes that spell valid UTF-8.
WellFormedUnits ==
    { "a", "space", "hiragana_a", "3", "8", "newline", "bell", "quote",
      "\\n", "\\t", "\\r", "\\\\", "\\quote", "\\343\\201\\202", "\\040" }

\* What a well-formed unit stands for.
UnitMeaning(u) ==
    CASE u = "\\n" -> <<10>>
      [] u = "\\t" -> <<9>>
      [] u = "\\r" -> <<13>>
      [] u = "\\\\" -> <<92>>
      [] u = "\\quote" -> <<34>>
      [] u = "\\343\\201\\202" -> <<12354>>
      [] u = "\\040" -> <<32>>
      [] OTHER -> UnitText(u)

RECURSIVE Meaning(_)
Meaning(us) == IF us = <<>> THEN <<>> ELSE UnitMeaning(Head(us)) \o Meaning(Tail(us))

\* The input is well-formed text, either inside one layer of double quotes or
\* bare with a first and a last char that are neither whitespace nor a pair of
\* quotes.
WellFormedInput ==
    /\ \A k \in 1..Len(codec.units) : codec.units[k] \in WellFormedUnits
    /\ \/ codec.quoted
       \/ /\ ~Wrapped(Input)
          /\ trim(Input) = Input

\* C28: decoding takes off exactly one layer of surrounding double quotes and
\* turns every backslash with three octal digits into the byte of that value and
\* every short form (\\, \", \n, \t, \r) into its byte; the octal escapes of the
\* bytes of a multi-byte char give that one char; the other chars stay.
C28_DecodesEscapes ==
    (codec.op = "decoded" /\ WellFormedInput) => codec.out = Meaning(codec.units)

\* A quoted input whose text itself starts with a quote and holds the octal run
\* of U+3042 was decoded: one layer is gone, the inner quote and the char are there.
C28_Witness ==
    /\ codec.op = "decoded" /\ codec.quoted
    /\ Len(codec.units) = 3
    /\ codec.units[1] = "quote"
    /\ codec.units[2] = "\\343\\201\\202"
    /\ codec.units[3] = "\\n"
    /\ codec.out = <<34, 12354, 10>>

\* The text the decoder scans: what is inside the quotes, or the bare input.
Body ==
    IF codec.quoted THEN Text(codec.units)
    ELSE IF Wrapped(Input) THEN SubSeq(Input, 2, Len(Input) - 1)
    ELSE Input

\* A recognized escape starts at the backslash at position i of s.
EscapeAt(s, i) ==
    /\ i < Len(s)
    /\ \/ s[i + 1] \in {110, 116, 114, 92, 34}
       \/ /\ i + 3 <= Len(s)
          /\ s[i + 1] \in 48..55 /\ s[i + 2] \in 48..55 /\ s[i + 3] \in 48..55
          /\ (s[i + 1] - 48) * 64 + (s[i + 2] - 48) * 8 + (s[i + 3] - 48) <= 255

\* No backslash of s starts a recognized escape.
NoEscape(s) == \A i \in 1..Len(s) : s[i] = 92 => ~EscapeAt(s, i)

\* The part of s from its first backslash on.
RECURSIVE FromBackslash(_)
FromBackslash(s) ==
    IF s = <<>> \/ Head(s) = 92 THEN s ELSE FromBackslash(Tail(s))

\* t ends with s.
EndsWith(t, s) == Len(s) <= Len(t) /\ SubSeq(t, Len(t) - Len(s) + 1, Len(t)) = s

\* C29: decoding always returns a string, and when the text holds backslashes
\* and every one of them is malformed (followed by a char that starts no escape,
\* by an incomplete or out-of-range octal sequence, or by nothing) the backslash
\* and every char after it come out literally, none dropped.
C29_MalformedLiteral ==
    codec.op = "decoded"
        => /\ \A k \in 1..Len(codec.out) : codec.out[k] \in 0..1114111
           /\ (NoEscape(Body) /\ FromBackslash(Body) # <<>>)
                 => EndsWith(codec.out, FromBackslash(Body))

\* What a node is, whatever its place in the arena: its path, its parent's path,
\* its children's paths in order, and every flag and count.
NodeView(its, i) ==
    [ path |-> its[i].path,
      parent |-> IF its[i].parent_index = NoParent THEN <<>>
                 ELSE its[its[i].parent_index].path,
      children |-> [k \in DOMAIN its[i].children_indices |->
                       its[its[i].children_indices[k]].path],
      is_expanded |-> its[i].is_expanded,
      children_loaded |-> its[i].children_loaded,
      is_checked_out |-> its[i].is_checked_out,
      pending_change |-> its[i].pending_change,
      is_locked |-> its[i].is_locked,
      contains_uncommitted_changes |-> its[i].contains_uncommitted_changes,
      has_checked_out_descendant |-> its[i].has_checked_out_descendant,
      is_implicitly_checked_out |-> its[i].is_implicitly_checked_out,
      is_loading |-> its[i].is_loading,
      indentation_level |-> its[i].indentation_level,
      cached_pending_changes |-> its[i].cached_pending_changes ]

\* The tree as a set of nodes, and the paths that have a node.
TreeView(st) ==
    [ nodes |-> { NodeView(st[1], i) : i \in DOMAIN st[1] },
      paths |-> DOMAIN st[2] ]

\* The main loop consumes the successful fetch result m in the tree st.
Delivered(st, m) ==
    children_loaded(st[1], st[2], m.parent_idx, m.val, sparse_checkout_dirs, uncommitted_paths)

\* The next two messages are successful fetch results for two different nodes.
TwoResultsWaiting ==
    /\ Len(rx) >= 2
    /\ \A k \in 1..2 : rx[k].kind = "ChildrenLoaded" /\ rx[k].ok
    /\ rx[1].parent_idx # rx[2].parent_idx

\* C30: when the successful results of two fetches for different nodes wait
\* together, consuming them in either order gives the same tree: the same nodes
\* by path with the same parent and children paths, the same loaded, expanded and
\* loading flags, the same derived flags and counts, and the same indexed paths.
C30_DeliveryOrder ==
    TwoResultsWaiting
        => TreeView(Delivered(Delivered(<<items, path_to_index>>, rx[1]), rx[2]))
             = TreeView(Delivered(Delivered(<<items, path_to_index>>, rx[2]), rx[1]))

\* Both results bring new nodes, so the two orders fill the arena differently.
C30_Witness ==
    /\ TwoResultsWaiting
    /\ \A k \in 1..2 : rx[k].val # {}
    /\ Delivered(Delivered(<<items, path_to_index>>, rx[1]), rx[2])[1]
         # Delivered(Delivered(<<items, path_to_index>>, rx[2]), rx[1])[1]

\* C31: every non-root node's index is greater than its parent's index, and the
\* root has no parent; so every index in a node's children list is greater than
\* the node's own: a pass from the last index to the first sees each child before
\* its parent, a pass from the first to the last sees each parent before its children.
C31_ChildAfterParent ==
    /\ items[0].parent_index = NoParent
    /\ \A n \in DOMAIN items \ {0} : items[n].parent_index \in 0..(n - 1)
    /\ \A n \in DOMAIN items :
          \A k \in DOMAIN items[n].children_indices :
              /\ items[n].children_indices[k] \in DOMAIN items
              /\ items[n].children_indices[k] > n
              /\ items[items[n].children_indices[k]].parent_index = n

\* Nodes three levels deep, merged in an order that separates a child from its
\* parent by more than one index.
C31_Witness ==
    \E n \in DOMAIN items :
        /\ items[n].indentation_level = 3
        /\ items[n].parent_index < n - 1
        /\ items[n].parent_index > 1

\* The items with node n's expanded flag cleared, and set.
Collapsed(its, n) == [its EXCEPT ![n].is_expanded = FALSE]
Expanded(its, n) == [its EXCEPT ![n].is_expanded = TRUE]

\* Left is pressed on an expanded node.
CollapseStep ==
    /\ handle_left_key
    /\ HasSelected
    /\ items[SelectedIdx].is_expanded

\* Right is pressed on a collapsed node that has children.
ExpandAgainStep ==
    /\ expand_selected_item
    /\ HasSelected
    /\ ~items[SelectedIdx].is_expanded
    /\ items[SelectedIdx].children_indices # <<>>

\* C32: a collapse clears the expanded flag of the selected node and changes no
\* other field of any node (its descendants keep their expanded flags); expanding
\* a collapsed node that has children sets the flag again without starting a
\* fetch; and collapsing an expanded node with children then expanding it again
\* gives back the visible list of before.
C32_CollapseExpand ==
    /\ [][CollapseStep
            => /\ items' = Collapsed(items, SelectedIdx)
               /\ filtered_item_indices' = build_visible_items(items')
               /\ selected_item_index' = selected_item_index
               /\ threads' = threads]_vars
    /\ [][ExpandAgainStep
            => /\ items' = Expanded(items, SelectedIdx)
               /\ filtered_item_indices' = build_visible_items(items')
               /\ selected_item_index' = selected_item_index
               /\ threads' = threads
               /\ ops' = ops]_vars
    /\ []((HasSelected /\ items[SelectedIdx].is_expanded
                       /\ items[SelectedIdx].children_indices # <<>>)
            => /\ build_visible_items(Collapsed(items, SelectedIdx))[selected_item_index + 1]
                    = SelectedIdx
               /\ build_visible_items(Expanded(Collapsed(items, SelectedIdx), SelectedIdx))
                    = filtered_item_indices)

\* A collapsed node whose child is still expanded, with the cursor on it.
C32_Witness ==
    /\ HasSelected
    /\ ~items[SelectedIdx].is_expanded
    /\ \E k \in DOMAIN items[SelectedIdx].children_indices :
          LET c == items[SelectedIdx].children_indices[k]
          IN items[c].is_expanded /\ items[c].children_indices # <<>>

\* Path p is the directory d or lies beneath it.
AtOrBeneath(p, d) == Len(p) >= Len(d) /\ SubSeq(p, 1, Len(d)) = d

\* C33: for every non-root node, is_locked equals contains_uncommitted_changes,
\* and both hold exactly when some path of the uncommitted-paths set read last is
\* the node's path or lies beneath it.
C33_LockedIffUncommitted ==
    \A n \in DOMAIN items \ {0} :
        /\ items[n].is_locked = items[n].contains_uncommitted_changes
        /\ items[n].is_locked = (\E p \in uncommitted_paths : AtOrBeneath(p, items[n].path))

\* After a refresh read a set that differs from the one read at startup: a locked
\* node created at startup, a locked node merged later and an unlocked merged node.
C33_Witness ==
    /\ ops.refresh > 0
    /\ uncommitted_paths # {}
    /\ sparse_checkout_dirs = {PathS}
    /\ \E a, b, c \in DOMAIN items :
          /\ items[a].path = PathS /\ items[a].is_locked
          /\ items[b].path = PathD1 /\ items[b].is_locked
          /\ items[c].path = PathD10 /\ ~items[c].is_locked

\* The main loop handles the Ok of the only apply of the run so far.
OnlyApplySucceeded ==
    /\ rx # <<>>
    /\ Head(rx).kind = "ApplyChangesCompleted"
    /\ Head(rx).ok
    /\ ops.apply = 1
    /\ recv_apply_changes_completed

\* C34: the completion of an apply clears only the markers the apply submitted:
\* a marker set while the apply was in flight (the node had none when 'a' was
\* pressed) is still on its node after the completion is handled.
C34_LateMarkerKept ==
    [][OnlyApplySucceeded
        => \A n \in DOMAIN items :
              (submitted[n] = "None" /\ items[n].pending_change # "None")
                  => items'[n].pending_change = items[n].pending_change]_vars

\* C35: once no operation is in flight and the queue is drained, if the refresh
\* dispatched last read the list successfully, the cached list is what it read and
\* every non-root node is explicitly checked out exactly when its path is in it.
C35_LatestRefreshWins ==
    (Settled /\ latest_refresh.seq > 0 /\ latest_refresh.ok)
        => /\ sparse_checkout_dirs = latest_refresh.val
           /\ \A n \in DOMAIN items \ {0} :
                 items[n].is_checked_out = (items[n].path \in latest_refresh.val)

\* C36: in every reachable state every non-root node's is_checked_out equals the
\* membership of its path in the cached list sparse_checkout_dirs.
C36_ExplicitFromCachedList ==
    \A n \in DOMAIN items \ {0} :
        items[n].is_checked_out = (items[n].path \in sparse_checkout_dirs)

\* A node created at startup left the cached list and a node merged later is in
\* it, after a refresh result replaced the list the program started with.
C36_Witness ==
    /\ sparse_checkout_dirs = {PathD10}
    /\ ops.refresh > 0
    /\ ~is_sparse_checkout_list_loading
    /\ \E a, b \in DOMAIN items :
          /\ items[a].path = PathS /\ ~items[a].is_checked_out
          /\ items[b].path = PathD10 /\ items[b].is_checked_out

\* The items after toggle_selection with the cursor on the unlocked node n.
ToggledItems(its, n) ==
    update_pending_changes_cache([its EXCEPT ![n].pending_change = toggled(its[n])], n)

\* Space is pressed on an unlocked node.
UnlockedToggleStep ==
    /\ toggle_selection
    /\ HasSelected
    /\ ~items[SelectedIdx].is_locked

\* C37: a toggle on an unlocked node without marker sets Remove if the node is
\* explicitly checked out and Add otherwise, a toggle on an unlocked node with a
\* marker takes it off, and no other node's marker changes; so two consecutive
\* toggles on an unlocked node give back its marker and every cached count.
C37_ToggleTwice ==
    /\ [][UnlockedToggleStep
            => /\ items' = ToggledItems(items, SelectedIdx)
               /\ items'[SelectedIdx].pending_change
                    = (IF items[SelectedIdx].pending_change # "None" THEN "None"
                       ELSE IF items[SelectedIdx].is_checked_out THEN "Remove" ELSE "Add")
               /\ \A n \in DOMAIN items \ {SelectedIdx} :
                     items'[n].pending_change = items[n].pending_change]_vars
    /\ []((HasSelected /\ ~items[SelectedIdx].is_locked)
            => LET twice == ToggledItems(ToggledItems(items, SelectedIdx), SelectedIdx)
               IN \A n \in DOMAIN items :
                     /\ twice[n].pending_change = items[n].pending_change
                     /\ twice[n].cached_pending_changes = items[n].cached_pending_changes)

\* 'a' is pressed and the re-read of the list fails.
ApplyReadFailed ==
    /\ apply_changes
    /\ ops'.fail = ops.fail + 1

\* The error results of applies waiting in the channel.
ApplyErrorsWaiting(q) ==
    Cardinality({k \in DOMAIN q : q[k].kind = "ApplyChangesCompleted" /\ ~q[k].ok})

\* C38: when the re-read of the list at the start of an apply fails, no thread
\* that would write the set is spawned, the repository's set is unchanged, and
\* exactly one ApplyChangesCompleted error is appended to the channel.
C38_FailedRereadWritesNothing ==
    [][ApplyReadFailed
        => /\ threads' = threads
           /\ git_sparse' = git_sparse
           /\ Len(rx') = Len(rx) + 1
           /\ SubSeq(rx', 1, Len(rx)) = rx
           /\ rx'[Len(rx')].kind = "ApplyChangesCompleted"
           /\ ~rx'[Len(rx')].ok
           /\ ApplyErrorsWaiting(rx') = ApplyErrorsWaiting(rx) + 1
           /\ items' = items]_vars

\* The error of a failed re-read waits in the channel with a marker pending: no
\* thread runs and the set in the repository is the one the program started with.
C38_Witness ==
    /\ ops.apply = 1
    /\ ops.fail = 1
    /\ ops.external = 0
    /\ threads = EmptyBag
    /\ Len(rx) = 1
    /\ rx[1].kind = "ApplyChangesCompleted"
    /\ ~rx[1].ok
    /\ is_applying_changes
    /\ \E n \in DOMAIN items : items[n].pending_change # "None"
    /\ \E repo \in InitRepo : git_sparse = repo.sco

\* C39: the path lookup and the node array agree: every node's path maps to the
\* node's index, the lookup has no other entry, and no two nodes have one path.
C39_LookupMatchesArena ==
    /\ \A n \in DOMAIN items :
          items[n].path \in DOMAIN path_to_index /\ path_to_index[items[n].path] = n
    /\ DOMAIN path_to_index = { items[n].path : n \in DOMAIN items }
    /\ \A m, n \in DOMAIN items : items[m].path = items[n].path => m = n

\* A node was fetched twice and its second listing, merged over the first,
\* brought a new child next to the children already there.
C39_Witness ==
    \E n \in DOMAIN items :
        /\ Len(merge_log[n]) >= 2
        /\ merge_log[n][1] # {}
        /\ \E d \in merge_log[n][2] : d \notin merge_log[n][1]
        /\ \E d \in merge_log[n][2] : d \in merge_log[n][1]

\* C40: the cursor is always a position of the visible list, which is never
\* empty: 0 <= selected_item_index < Len(filtered_item_indices).
C40_CursorInList ==
    /\ filtered_item_indices # <<>>
    /\ selected_item_index \in 0..(Len(filtered_item_indices) - 1)

\* The cursor is on the last row, at least two rows down, of a list made longer
\* by fetch results and shorter again by the collapse of a node with children.
C40_Witness ==
    /\ selected_item_index = Len(filtered_item_indices) - 1
    /\ selected_item_index >= 2
    /\ \E n \in DOMAIN items :
          n # 0 /\ ~items[n].is_expanded /\ items[n].children_indices # <<>>
    /\ Len(filtered_item_indices) < NumItems(items)

====
